---------------------------- MODULE Spec2Model ----------------------------
(***************************************************************************)
(* Model of constellation_composition_mcp/server.py: the catalog, the      *)
(* mapping engine map_constellation_to_composition with its classifiers,   *)
(* the pydantic request model ConstellationCompositionInput and the tool   *)
(* generate_constellation_composition.                                     *)
(*                                                                         *)
(* Numbers.  The engine computes with Python floats.  Here a float v is    *)
(* the integer floor(v * Unit), Unit = 10000, so 0.35 is 3500 and 1.0 is   *)
(* 10000; a product of two such values is in units of 1/Unit^2 and a       *)
(* quotient of two sums is floored.                                        *)
(*                                                                         *)
(* Strings are TLA+ strings; Python's `in`, lower(), strip() and split(',')*)
(* are computed character by character with Len, SubSeq and \o.            *)
(*                                                                         *)
(* The generator of Python's `random` module is one object shared by the   *)
(* whole process.  Its state is modelled by the number of draws made since *)
(* the last random.seed(42), Unseeded before the first seed; the k-th draw *)
(* after that seed is Seed42Stream[k].                                     *)
(***************************************************************************)
EXTENDS Integers, Sequences, FiniteSets, TLC

VARIABLES
    rng,        \* state of the process-wide `random` generator
    inflight,   \* tool calls suspended at `await fetch_constellation_data`
    response,   \* what the tool generate_constellation_composition last returned
    engine,     \* the last invocation of map_constellation_to_composition
    seen,       \* an earlier invocation of the engine, kept for comparison
    threads,    \* engine calls running in threads, step by step
    focal       \* a function applied on its own to inputs drawn at the start
                \* (generate_focal_points to a tag pair, validate_constellation
                \* to a string, a classifier to a tag)

vars == <<rng, inflight, response, engine, seen, threads, focal>>

None == "None"

\* An Optional[...] argument (a canvas dimension of a request, the geometry
\* data): Null is None, Some(v) the value v
Null ==
    <<>>

Some(v) ==
    <<v>>

Unit == 10000

-----------------------------------------------------------------------------
(* Python string operations *)

\* the printable ASCII characters 32..95 and 97..126 in code point order (a
\* backquote, 96, cannot be written in a string here and occurs in no input)
AsciiLow ==
    " !\"#$%&'()*+,-./0123456789:;<=>?@ABCDEFGHIJKLMNOPQRSTUVWXYZ[\\]^_"

AsciiHigh ==
    "abcdefghijklmnopqrstuvwxyz{|}~"

\* ord(c) for a printable ASCII character c
Ord(c) ==
    IF \E i \in 1..Len(AsciiLow) : SubSeq(AsciiLow, i, i) = c
    THEN 31 + (CHOOSE i \in 1..Len(AsciiLow) : SubSeq(AsciiLow, i, i) = c)
    ELSE 96 + (CHOOSE i \in 1..Len(AsciiHigh) : SubSeq(AsciiHigh, i, i) = c)

\* chr(n) for n in 32..95 or 97..126
Chr(n) ==
    IF n <= 95 THEN SubSeq(AsciiLow, n - 31, n - 31) ELSE SubSeq(AsciiHigh, n - 96, n - 96)

\* sub in s
Contains(sub, s) ==
    \E i \in 1..(Len(s) - Len(sub) + 1) : SubSeq(s, i, i + Len(sub) - 1) = sub

\* c.lower() for each of A..Z (code points 65..90): the letter 32 further on
LowerOfUpper ==
    [c \in {SubSeq(AsciiLow, i, i) : i \in 34..59} |-> Chr(Ord(c) + 32)]

\* c.lower() for one character
LowerChar(c) ==
    IF c \in DOMAIN LowerOfUpper THEN LowerOfUpper[c] ELSE c

RECURSIVE Lower(_)
\* s.lower(): every character lowered, the string taken half by half
Lower(s) ==
    IF Len(s) = 0 THEN s
    ELSE IF Len(s) = 1 THEN LowerChar(s)
    ELSE Lower(SubSeq(s, 1, Len(s) \div 2)) \o Lower(SubSeq(s, Len(s) \div 2 + 1, Len(s)))

IsSpace(c) ==
    c \in {" ", "\t", "\n", "\r"}

RECURSIVE LStrip(_)
LStrip(s) ==
    IF Len(s) > 0 /\ IsSpace(SubSeq(s, 1, 1)) THEN LStrip(SubSeq(s, 2, Len(s))) ELSE s

RECURSIVE RStrip(_)
RStrip(s) ==
    IF Len(s) > 0 /\ IsSpace(SubSeq(s, Len(s), Len(s)))
    THEN RStrip(SubSeq(s, 1, Len(s) - 1)) ELSE s

\* s.strip()
Strip(s) ==
    RStrip(LStrip(s))

RECURSIVE SplitFrom(_, _, _)
\* the fragments of s from position i on, the current fragment starting at from
SplitFrom(s, from, i) ==
    IF i > Len(s) THEN <<SubSeq(s, from, Len(s))>>
    ELSE IF SubSeq(s, i, i) = "," THEN <<SubSeq(s, from, i - 1)>> \o SplitFrom(s, i + 1, i + 1)
    ELSE SplitFrom(s, from, i + 1)

\* s.split(',')
SplitComma(s) ==
    SplitFrom(s, 1, 1)

RECURSIVE StrLess(_, _)
\* a < b for Python strings (code point order, a proper prefix first)
StrLess(a, b) ==
    IF Len(b) = 0 THEN FALSE
    ELSE IF Len(a) = 0 THEN TRUE
    ELSE IF SubSeq(a, 1, 1) = SubSeq(b, 1, 1)
         THEN StrLess(SubSeq(a, 2, Len(a)), SubSeq(b, 2, Len(b)))
    ELSE Ord(SubSeq(a, 1, 1)) < Ord(SubSeq(b, 1, 1))

RECURSIVE Insert(_, _)
Insert(x, sortedSeq) ==
    IF sortedSeq = <<>> THEN <<x>>
    ELSE IF StrLess(Head(sortedSeq), x) THEN <<Head(sortedSeq)>> \o Insert(x, Tail(sortedSeq))
    ELSE <<x>> \o sortedSeq

RECURSIVE Sorted(_)
\* sorted(seq) for a sequence of strings
Sorted(seq) ==
    IF seq = <<>> THEN <<>> ELSE Insert(Head(seq), Sorted(Tail(seq)))

RECURSIVE Join(_, _)
\* sep.join(seq)
Join(sep, seq) ==
    IF seq = <<>> THEN ""
    ELSE IF Len(seq) = 1 THEN seq[1]
    ELSE seq[1] \o sep \o Join(sep, Tail(seq))

\* d.get(key, default) for a record d
Get(d, key, default) ==
    IF key \in DOMAIN d THEN d[key] ELSE default

-----------------------------------------------------------------------------
(* The catalog, in the dict's insertion order *)

CONSTELLATIONS ==
  <<
     [name |-> "Andromeda", abbr |-> "And", genitive |-> "Andromedae",
      story |-> "Chained princess rescued by Perseus",
      theme |-> "Sacrifice, rescue, beauty in chains",
      visual_character |-> "Linear with graceful curves, horizontal spread",
      brightness_profile |-> "moderate_to_bright", star_count_visual |-> 7,
      shape |-> "elongated_linear"],
     [name |-> "Aquarius", abbr |-> "Aqr", genitive |-> "Aquarii",
      story |-> "Water bearer pouring from celestial jar",
      theme |-> "Flow, abundance, giving",
      visual_character |-> "Cascading downward flow, dispersed",
      brightness_profile |-> "moderate", star_count_visual |-> 8,
      shape |-> "dispersed_cascade"],
     [name |-> "Aquila", abbr |-> "Aql", genitive |-> "Aquilae",
      story |-> "Eagle carrying Zeus's thunderbolts",
      theme |-> "Power, divine messenger, soaring",
      visual_character |-> "Wings spread wide, central bright star",
      brightness_profile |-> "very_bright_center", star_count_visual |-> 6,
      shape |-> "symmetric_wings"],
     [name |-> "Aries", abbr |-> "Ari", genitive |-> "Arietis",
      story |-> "Golden fleece ram",
      theme |-> "Courage, sacrifice, precious treasure",
      visual_character |-> "Compact curved form, ram's horn",
      brightness_profile |-> "bright", star_count_visual |-> 4,
      shape |-> "compact_curved"],
     [name |-> "Cancer", abbr |-> "Cnc", genitive |-> "Cancri",
      story |-> "Crab sent by Hera to distract Hercules",
      theme |-> "Persistence, protective shell",
      visual_character |-> "Compact cluster, crab body",
      brightness_profile |-> "faint_with_cluster", star_count_visual |-> 5,
      shape |-> "compact_central"],
     [name |-> "Canis Major", abbr |-> "CMa", genitive |-> "Canis Majoris",
      story |-> "Greater hunting dog following Orion",
      theme |-> "Loyalty, hunting, companionship",
      visual_character |-> "Compact with brilliant Sirius, dynamic stance",
      brightness_profile |-> "extremely_bright_star", star_count_visual |-> 8,
      shape |-> "compact_dynamic"],
     [name |-> "Capricornus", abbr |-> "Cap", genitive |-> "Capricorni",
      story |-> "Sea-goat with fish tail",
      theme |-> "Duality, earth and water, ambition",
      visual_character |-> "Triangular form, goat's head to fish tail",
      brightness_profile |-> "moderate", star_count_visual |-> 7,
      shape |-> "triangular"],
     [name |-> "Cassiopeia", abbr |-> "Cas", genitive |-> "Cassiopeiae",
      story |-> "Vain queen bound to throne",
      theme |-> "Pride, punishment, eternal vigilance",
      visual_character |-> "Distinctive W or M shape, highly recognizable",
      brightness_profile |-> "bright", star_count_visual |-> 5,
      shape |-> "w_zigzag"],
     [name |-> "Centaurus", abbr |-> "Cen", genitive |-> "Centauri",
      story |-> "Wise centaur, teacher of heroes",
      theme |-> "Wisdom, healing, mentorship",
      visual_character |-> "Large spread, bow-wielding stance",
      brightness_profile |-> "very_bright", star_count_visual |-> 11,
      shape |-> "large_complex"],
     [name |-> "Cygnus", abbr |-> "Cyg", genitive |-> "Cygni",
      story |-> "Swan, Zeus in disguise, Northern Cross",
      theme |-> "Transformation, grace, divine deception",
      visual_character |-> "Perfect cross or swan in flight",
      brightness_profile |-> "bright_cross", star_count_visual |-> 6,
      shape |-> "cross_symmetric"],
     [name |-> "Gemini", abbr |-> "Gem", genitive |-> "Geminorum",
      story |-> "Twin brothers Castor and Pollux",
      theme |-> "Brotherhood, duality, eternal bond",
      visual_character |-> "Twin parallel figures, two bright stars",
      brightness_profile |-> "two_bright_stars", star_count_visual |-> 8,
      shape |-> "parallel_twins"],
     [name |-> "Leo", abbr |-> "Leo", genitive |-> "Leonis",
      story |-> "Nemean lion slain by Hercules",
      theme |-> "Courage, royalty, invincibility",
      visual_character |-> "Sickle for head/mane, triangle for body",
      brightness_profile |-> "very_bright", star_count_visual |-> 9,
      shape |-> "sickle_triangle"],
     [name |-> "Lyra", abbr |-> "Lyr", genitive |-> "Lyrae",
      story |-> "Orpheus's lyre",
      theme |-> "Music, art, lost love",
      visual_character |-> "Compact parallelogram, small but bright",
      brightness_profile |-> "extremely_bright_star", star_count_visual |-> 5,
      shape |-> "compact_parallelogram"],
     [name |-> "Orion", abbr |-> "Ori", genitive |-> "Orionis",
      story |-> "Great hunter with belt and sword",
      theme |-> "Hunting prowess, tragic death, grandeur",
      visual_character |-> "Hourglass with distinctive belt, large and commanding",
      brightness_profile |-> "multiple_bright_stars", star_count_visual |-> 10,
      shape |-> "hourglass_belt"],
     [name |-> "Pegasus", abbr |-> "Peg", genitive |-> "Pegasi",
      story |-> "Winged horse sprung from Medusa's blood",
      theme |-> "Inspiration, flight, poetic achievement",
      visual_character |-> "Great square with extended lines for head/legs",
      brightness_profile |-> "bright_square", star_count_visual |-> 9,
      shape |-> "square_extended"],
     [name |-> "Perseus", abbr |-> "Per", genitive |-> "Persei",
      story |-> "Hero who slew Medusa",
      theme |-> "Heroism, clever strategy, reflection",
      visual_character |-> "Curved chain from Cassiopeia, Medusa's head",
      brightness_profile |-> "bright", star_count_visual |-> 8,
      shape |-> "curved_chain"],
     [name |-> "Sagittarius", abbr |-> "Sgr", genitive |-> "Sagittarii",
      story |-> "Centaur archer aiming at Scorpius",
      theme |-> "Aim, philosophy, adventure",
      visual_character |-> "Teapot shape, pointing toward galactic center",
      brightness_profile |-> "bright", star_count_visual |-> 10,
      shape |-> "teapot"],
     [name |-> "Scorpius", abbr |-> "Sco", genitive |-> "Scorpii",
      story |-> "Scorpion that killed Orion",
      theme |-> "Danger, deadly beauty, revenge",
      visual_character |-> "Curved tail with stinger, bright red heart",
      brightness_profile |-> "very_bright_red", star_count_visual |-> 12,
      shape |-> "curved_tail"],
     [name |-> "Taurus", abbr |-> "Tau", genitive |-> "Tauri",
      story |-> "Bull form of Zeus, Pleiades sisters",
      theme |-> "Strength, passion, pursuit",
      visual_character |-> "V-shaped face, Pleiades cluster",
      brightness_profile |-> "bright_with_cluster", star_count_visual |-> 8,
      shape |-> "v_shaped"],
     [name |-> "Ursa Major", abbr |-> "UMa", genitive |-> "Ursae Majoris",
      story |-> "Great bear, transformed Callisto, Big Dipper",
      theme |-> "Transformation, eternal circling, guidance",
      visual_character |-> "Dipper shape, circumpolar, never setting",
      brightness_profile |-> "bright", star_count_visual |-> 7,
      shape |-> "dipper"],
     [name |-> "Ursa Minor", abbr |-> "UMi", genitive |-> "Ursae Minoris",
      story |-> "Little bear, contains North Star",
      theme |-> "Guidance, steadfastness, eternal pivot",
      visual_character |-> "Small dipper, Polaris at tail",
      brightness_profile |-> "bright_pole_star", star_count_visual |-> 7,
      shape |-> "small_dipper"],
     [name |-> "Virgo", abbr |-> "Vir", genitive |-> "Virginis",
      story |-> "Maiden of harvest, justice, or purity",
      theme |-> "Harvest, innocence, justice",
      visual_character |-> "Y-shaped figure, large sprawling",
      brightness_profile |-> "very_bright", star_count_visual |-> 9,
      shape |-> "y_shaped"]
  >>

\* CONSTELLATIONS.keys()
Keys ==
    [i \in 1..Len(CONSTELLATIONS) |-> CONSTELLATIONS[i].name]

\* name in CONSTELLATIONS
InCatalog(name) ==
    \E i \in 1..Len(CONSTELLATIONS) : CONSTELLATIONS[i].name = name

\* CONSTELLATIONS[name]
Metadata(name) ==
    CONSTELLATIONS[CHOOSE i \in 1..Len(CONSTELLATIONS) : CONSTELLATIONS[i].name = name]

-----------------------------------------------------------------------------
(* The `random` module *)

Unseeded == -1

\* floor(random.random() * Unit) for the successive draws after random.seed(42)
Seed42Stream ==
    << 6394,  250, 2750, 2232, 7364, 6766, 8921,  869, 4219,  297, 2186, 5053,
        265, 1988, 6498, 5449, 2204, 5892, 8094,   64, 8058, 6981, 3402, 1554,
       9572, 3365,  927,  967, 8474, 6037, 8071, 7297, 5362, 9731, 3785, 5520,
       8294, 6185, 8617, 5773, 7045,  458, 2278, 2893,  797, 2327, 1010, 2779,
       6356, 3648, 3701, 2095, 2669, 9366, 6480, 6091, 1711, 7291, 1634, 3794,
       9895, 6399, 5569, 6846, 8428, 7759, 2290,  321, 3154, 2677, 2109, 9429 >>

\* RandomSeed as it would be if the seed were set only while the generator
\* has not been seeded yet
RandomSeedOnce(state) ==
    IF state = Unseeded THEN 0 ELSE state

\* the generator's state after random.seed(42), whatever it was
RandomSeed(state) ==
    0

\* the value random.random() returns in `state`; the state becomes state + 1
RandomRandom(state) ==
    Seed42Stream[state + 1]

-----------------------------------------------------------------------------
(* generate_focal_points *)

Point(x, y, weight) ==
    [x |-> x, y |-> y, weight |-> weight]

\* FocalRule as it would be with the "triangular" test ahead of the "square" test
FocalRuleTriangularFirst(brightness, shape) ==
    IF Contains("two_bright_stars", brightness) THEN 1
    ELSE IF Contains("extremely_bright_star", brightness) THEN 2
    ELSE IF Contains("bright_cross", brightness) \/ Contains("cross", shape) THEN 3
    ELSE IF Contains("belt", shape) \/ Contains("hourglass", shape) THEN 4
    ELSE IF Contains("w_zigzag", shape) THEN 5
    ELSE IF Contains("dipper", shape) THEN 6
    ELSE IF Contains("triangular", shape) THEN 8
    ELSE IF Contains("square", shape) THEN 7
    ELSE IF Contains("curved", shape) \/ Contains("tail", shape) THEN 9
    ELSE IF Contains("dispersed", shape) THEN 10
    ELSE 11

\* FocalRule as it would be with the triangular branch as the fallback
FocalRuleDefaultTriangular(brightness, shape) ==
    IF Contains("two_bright_stars", brightness) THEN 1
    ELSE IF Contains("extremely_bright_star", brightness) THEN 2
    ELSE IF Contains("bright_cross", brightness) \/ Contains("cross", shape) THEN 3
    ELSE IF Contains("belt", shape) \/ Contains("hourglass", shape) THEN 4
    ELSE IF Contains("w_zigzag", shape) THEN 5
    ELSE IF Contains("dipper", shape) THEN 6
    ELSE IF Contains("square", shape) THEN 7
    ELSE IF Contains("curved", shape) \/ Contains("tail", shape) THEN 9
    ELSE IF Contains("dispersed", shape) THEN 10
    ELSE 8

\* which branch of the if/elif chain is taken, 1..11
FocalRule(brightness, shape) ==
    IF Contains("two_bright_stars", brightness) THEN 1
    ELSE IF Contains("extremely_bright_star", brightness) THEN 2
    ELSE IF Contains("bright_cross", brightness) \/ Contains("cross", shape) THEN 3
    ELSE IF Contains("belt", shape) \/ Contains("hourglass", shape) THEN 4
    ELSE IF Contains("w_zigzag", shape) THEN 5
    ELSE IF Contains("dipper", shape) THEN 6
    ELSE IF Contains("square", shape) THEN 7
    ELSE IF Contains("triangular", shape) THEN 8
    ELSE IF Contains("curved", shape) \/ Contains("tail", shape) THEN 9
    ELSE IF Contains("dispersed", shape) THEN 10
    ELSE 11

\* floor(sin(i / 6 * pi) * Unit) for i = 0..6, at index i + 1
SinSixths ==
    <<0, 5000, 8660, 10000, 8660, 5000, 0>>

\* the point the curved sweep appends for loop index i of range(7)
CurvedPoint(i) ==
    Point(2000 + (6000 * i) \div 6,
          5000 + (2 * SinSixths[i + 1]) \div 10,
          IF i < 2 THEN 4000 ELSE 2000)

\* DispersedPoint as it would be with the draws for x and y not scaled by 0.6
DispersedPointUnscaled(state) ==
    Point(2000 + RandomRandom(state),
          2000 + RandomRandom(state + 1),
          2000 + (RandomRandom(state + 2) * 2) \div 10)

\* the point one iteration of the dispersed loop appends, drawing three
\* values from the generator in `state`
DispersedPoint(state) ==
    Point(2000 + (RandomRandom(state) * 6) \div 10,
          2000 + (RandomRandom(state + 1) * 6) \div 10,
          2000 + (RandomRandom(state + 2) * 2) \div 10)

\* RulePoints as it would be with `points = []` left as it is by the final else
RulePointsNoDefault(rule, state) ==
    CASE rule = 1 -> <<Point(3500, 5000, 5000), Point(6500, 5000, 5000)>>
      [] rule = 2 -> <<Point(5000, 5000, 10000), Point(3500, 6000, 2000),
                       Point(6500, 4000, 2000)>>
      [] rule = 3 -> <<Point(5000, 5000, 5000), Point(5000, 3000, 3000),
                       Point(3000, 5000, 2500), Point(7000, 5000, 2500),
                       Point(5000, 7000, 3000)>>
      [] rule = 4 -> <<Point(5000, 4500, 4000), Point(3500, 3000, 3500),
                       Point(6500, 3000, 3500), Point(3500, 7000, 2500),
                       Point(6500, 7000, 2500)>>
      [] rule = 5 -> <<Point(2000, 5000, 2500), Point(3500, 4000, 2500),
                       Point(5000, 5000, 2500), Point(6500, 4000, 2500),
                       Point(8000, 5000, 2500)>>
      [] rule = 6 -> <<Point(3000, 4500, 2500), Point(4500, 4500, 2500),
                       Point(4500, 6000, 2500), Point(3000, 6000, 2500),
                       Point(5500, 5000, 2000), Point(6500, 4500, 2000),
                       Point(7500, 4000, 2000)>>
      [] rule = 7 -> <<Point(3500, 3500, 3000), Point(6500, 3500, 3000),
                       Point(6500, 6500, 3000), Point(3500, 6500, 3000)>>
      [] rule = 8 -> <<Point(5000, 3000, 4000), Point(3500, 6500, 3500),
                       Point(6500, 6500, 3500)>>
      [] rule = 9 -> [j \in 1..7 |-> CurvedPoint(j - 1)]
      [] rule = 10 -> [j \in 1..6 |-> DispersedPoint(state + 3 * (j - 1))]
      [] OTHER -> <<>>

\* the points of branch `rule`; the dispersed branch draws from `state`
RulePoints(rule, state) ==
    CASE rule = 1 -> <<Point(3500, 5000, 5000), Point(6500, 5000, 5000)>>
      [] rule = 2 -> <<Point(5000, 5000, 10000), Point(3500, 6000, 2000),
                       Point(6500, 4000, 2000)>>
      [] rule = 3 -> <<Point(5000, 5000, 5000), Point(5000, 3000, 3000),
                       Point(3000, 5000, 2500), Point(7000, 5000, 2500),
                       Point(5000, 7000, 3000)>>
      [] rule = 4 -> <<Point(5000, 4500, 4000), Point(3500, 3000, 3500),
                       Point(6500, 3000, 3500), Point(3500, 7000, 2500),
                       Point(6500, 7000, 2500)>>
      [] rule = 5 -> <<Point(2000, 5000, 2500), Point(3500, 4000, 2500),
                       Point(5000, 5000, 2500), Point(6500, 4000, 2500),
                       Point(8000, 5000, 2500)>>
      [] rule = 6 -> <<Point(3000, 4500, 2500), Point(4500, 4500, 2500),
                       Point(4500, 6000, 2500), Point(3000, 6000, 2500),
                       Point(5500, 5000, 2000), Point(6500, 4500, 2000),
                       Point(7500, 4000, 2000)>>
      [] rule = 7 -> <<Point(3500, 3500, 3000), Point(6500, 3500, 3000),
                       Point(6500, 6500, 3000), Point(3500, 6500, 3000)>>
      [] rule = 8 -> <<Point(5000, 3000, 4000), Point(3500, 6500, 3500),
                       Point(6500, 6500, 3500)>>
      [] rule = 9 -> [j \in 1..7 |-> CurvedPoint(j - 1)]
      [] rule = 10 -> [j \in 1..6 |-> DispersedPoint(state + 3 * (j - 1))]
      [] OTHER -> <<Point(5000, 3500, 4000), Point(3500, 6500, 3500),
                    Point(6500, 6500, 3500)>>

\* generate_focal_points as it would be with x and y placed on the canvas:
\* scaled by the width and the height relative to the default 1024
GenerateFocalPointsOnCanvas(brightness, shape, width, height, state) ==
    LET rule == FocalRule(brightness, shape)
        seeded == IF rule = 10 THEN RandomSeed(state) ELSE state
        points == RulePoints(rule, seeded)
    IN  [points |-> [i \in 1..Len(points) |->
                        Point((points[i].x * width) \div 1024,
                              (points[i].y * height) \div 1024, points[i].weight)],
         rng |-> IF rule = 10 THEN seeded + 18 ELSE state]

\* generate_focal_points run without interruption from generator state
\* `state`: the list returned and the generator's state afterwards.
\* width and height are not read.
generate_focal_points(brightness, shape, width, height, state) ==
    LET rule == FocalRule(brightness, shape)
    IN  IF rule = 10
        THEN [points |-> RulePoints(rule, RandomSeed(state)),
              rng |-> RandomSeed(state) + 18]
        ELSE [points |-> RulePoints(rule, state), rng |-> state]

-----------------------------------------------------------------------------
(* determine_visual_flow *)

Flow(direction, type, quality, rhythm) ==
    [primary_direction |-> direction, flow_type |-> type,
     movement_quality |-> quality, rhythm |-> rhythm]

\* determine_visual_flow as it would be with the "cross" test moved to the
\* front of the chain
VisualFlowCrossFirst(shape, geometry_data) ==
    IF Contains("cross", shape)
    THEN Flow("radial", "centered", "stable, anchored", "four-way symmetry")
    ELSE IF Contains("cascade", shape) \/ Contains("dispersed_cascade", shape)
    THEN Flow("downward", "cascading", "fluid, dispersing", "irregular, natural flow")
    ELSE IF Contains("wings", shape) \/ Contains("symmetric", shape)
    THEN Flow("horizontal", "bilateral", "balanced, expansive", "symmetrical")
    ELSE IF Contains("curved", shape) \/ Contains("tail", shape)
    THEN Flow("curved sweep", "sinuous", "dynamic, flowing", "continuous curve")
    ELSE IF Contains("linear", shape) \/ Contains("belt", shape)
    THEN Flow("horizontal", "linear", "direct, purposeful", "regular spacing")
    ELSE IF Contains("zigzag", shape) \/ Contains("w_", shape)
    THEN Flow("alternating", "zigzag", "energetic, angular", "rhythmic alternation")
    ELSE IF Contains("dipper", shape)
    THEN Flow("L-shaped", "segmented", "contained then extending",
              "bowl to handle transition")
    ELSE Flow("multi-directional", "balanced", "stable", "varied")

\* determine_visual_flow as it would be when tracing the fetched lines
VisualFlowFromGeometry(shape, geometry_data) ==
    IF geometry_data # Null
    THEN Flow("along the lines", "traced", "connected", "segment by segment")
    ELSE IF Contains("cascade", shape) \/ Contains("dispersed_cascade", shape)
    THEN Flow("downward", "cascading", "fluid, dispersing", "irregular, natural flow")
    ELSE IF Contains("wings", shape) \/ Contains("symmetric", shape)
    THEN Flow("horizontal", "bilateral", "balanced, expansive", "symmetrical")
    ELSE IF Contains("curved", shape) \/ Contains("tail", shape)
    THEN Flow("curved sweep", "sinuous", "dynamic, flowing", "continuous curve")
    ELSE IF Contains("cross", shape)
    THEN Flow("radial", "centered", "stable, anchored", "four-way symmetry")
    ELSE IF Contains("linear", shape) \/ Contains("belt", shape)
    THEN Flow("horizontal", "linear", "direct, purposeful", "regular spacing")
    ELSE IF Contains("zigzag", shape) \/ Contains("w_", shape)
    THEN Flow("alternating", "zigzag", "energetic, angular", "rhythmic alternation")
    ELSE IF Contains("dipper", shape)
    THEN Flow("L-shaped", "segmented", "contained then extending",
              "bowl to handle transition")
    ELSE Flow("multi-directional", "balanced", "stable", "varied")

\* geometry_data is not read
determine_visual_flow(shape, geometry_data) ==
    IF Contains("cascade", shape) \/ Contains("dispersed_cascade", shape)
    THEN Flow("downward", "cascading", "fluid, dispersing", "irregular, natural flow")
    ELSE IF Contains("wings", shape) \/ Contains("symmetric", shape)
    THEN Flow("horizontal", "bilateral", "balanced, expansive", "symmetrical")
    ELSE IF Contains("curved", shape) \/ Contains("tail", shape)
    THEN Flow("curved sweep", "sinuous", "dynamic, flowing", "continuous curve")
    ELSE IF Contains("cross", shape)
    THEN Flow("radial", "centered", "stable, anchored", "four-way symmetry")
    ELSE IF Contains("linear", shape) \/ Contains("belt", shape)
    THEN Flow("horizontal", "linear", "direct, purposeful", "regular spacing")
    ELSE IF Contains("zigzag", shape) \/ Contains("w_", shape)
    THEN Flow("alternating", "zigzag", "energetic, angular", "rhythmic alternation")
    ELSE IF Contains("dipper", shape)
    THEN Flow("L-shaped", "segmented", "contained then extending",
              "bowl to handle transition")
    ELSE Flow("multi-directional", "balanced", "stable", "varied")

-----------------------------------------------------------------------------
(* calculate_balance *)

RECURSIVE SumWeight(_)
\* sum(p['weight'] for p in focal_points)
SumWeight(points) ==
    IF points = <<>> THEN 0 ELSE Head(points).weight + SumWeight(Tail(points))

RECURSIVE SumXWeight(_)
\* sum(p['x'] * p['weight'] for p in focal_points)
SumXWeight(points) ==
    IF points = <<>> THEN 0
    ELSE Head(points).x * Head(points).weight + SumXWeight(Tail(points))

RECURSIVE SumYWeight(_)
\* sum(p['y'] * p['weight'] for p in focal_points)
SumYWeight(points) ==
    IF points = <<>> THEN 0
    ELSE Head(points).y * Head(points).weight + SumYWeight(Tail(points))

Abs(v) ==
    IF v < 0 THEN -v ELSE v

\* CenterX as it would be when dividing by the number of points
CenterXUnweighted(points) ==
    SumXWeight(points) \div (Len(points) * Unit)

\* CenterY as it would be when dividing by the number of points
CenterYUnweighted(points) ==
    SumYWeight(points) \div (Len(points) * Unit)

\* center_x: the weighted sum of the x coordinates over the total weight
CenterX(points) ==
    SumXWeight(points) \div SumWeight(points)

\* center_y: the weighted sum of the y coordinates over the total weight
CenterY(points) ==
    SumYWeight(points) \div SumWeight(points)

\* whether the floor in CenterX lost nothing: the centroid is a multiple of
\* 1/Unit
ExactX(points) ==
    SumXWeight(points) % SumWeight(points) = 0

\* whether the floor in CenterY lost nothing
ExactY(points) ==
    SumYWeight(points) % SumWeight(points) = 0

\* abs(center - 0.5) < 0.1 on floats, for a centroid whose floor is `center`.
\* Neither 0.4 nor 0.6 is a float: a centroid of exactly 0.4 or 0.6 is
\* computed as a float next to it, on the side the rounding of the products,
\* the sums and the quotient leaves it, and `tie` is what the test then
\* gives.  Away from these two values the rounding is too small to matter:
\* a centroid that is not exact lies strictly between center and center + 1.
WithinTenth(center, exact, tie) ==
    IF exact
    THEN IF Abs(center - 5000) = 1000 THEN tie ELSE Abs(center - 5000) < 1000
    ELSE center >= 4000 /\ center < 6000

\* what the test can give for a centroid of exactly 0.4 or 0.6.  For one
\* point of weight 1.0 the product and the quotient are exact and the
\* centroid is the float nearest to the coordinate: 0.6 - 0.5 and 0.5 - 0.4
\* both compute to 0.09999999999999998, below 0.1.  For other lists it
\* depends on the rounding of the sums.
TieOutcomes(points) ==
    IF Len(points) = 1 /\ points[1].weight = Unit THEN {TRUE} ELSE BOOLEAN

\* the if/elif chain over the two tests
BalanceType(near_x, near_y) ==
    IF near_x /\ near_y THEN "centered"
    ELSE IF near_x THEN "vertically_centered"
    ELSE IF near_y THEN "horizontally_centered"
    ELSE "asymmetric"

\* an empty list, or weights summing to zero, raises ZeroDivisionError;
\* ties.x and ties.y are the outcomes of the two tests should the centroid
\* coordinate be exactly 0.4 or 0.6
calculate_balance(shape, focal_points, ties) ==
    IF SumWeight(focal_points) = 0 THEN "ZeroDivisionError"
    ELSE
    LET center_x == CenterX(focal_points)
        center_y == CenterY(focal_points)
        balance_type ==
            BalanceType(WithinTenth(center_x, ExactX(focal_points), ties.x),
                        WithinTenth(center_y, ExactY(focal_points), ties.y))
        is_symmetric == \/ Contains("symmetric", shape)
                        \/ Contains("cross", shape)
                        \/ Contains("square", shape)
    IN  [balance_type |-> balance_type,
         center_of_mass |-> [x |-> center_x, y |-> center_y],
         symmetry |-> IF is_symmetric THEN "symmetric" ELSE "asymmetric",
         stability |-> IF balance_type = "centered" THEN "high" ELSE "dynamic"]

\* the tie outcomes handed to calculate_balance for the engine's own point
\* lists: none of the eleven lists of generate_focal_points has a centroid
\* coordinate of exactly 0.4 or 0.6, so they are not read
EngineTies ==
    [x |-> TRUE, y |-> TRUE]

-----------------------------------------------------------------------------
(* determine_spatial_distribution *)

\* determine_spatial_distribution as it would be with `star_count < 5` for
\* the sparse threshold
SparseBelowFive(shape, star_count) ==
    IF Contains("compact", shape) THEN "clustered_central"
    ELSE IF Contains("dispersed", shape) \/ Contains("cascade", shape) THEN "scattered_wide"
    ELSE IF Contains("linear", shape) \/ Contains("belt", shape) THEN "linear_arrangement"
    ELSE IF star_count < 5 THEN "minimal_sparse"
    ELSE IF star_count >= 10 THEN "complex_dense"
    ELSE "moderate_distributed"

\* determine_spatial_distribution as it would be with the star-count
\* thresholds ahead of the "linear"/"belt" test
StarCountBeforeLinear(shape, star_count) ==
    IF Contains("compact", shape) THEN "clustered_central"
    ELSE IF Contains("dispersed", shape) \/ Contains("cascade", shape) THEN "scattered_wide"
    ELSE IF star_count <= 5 THEN "minimal_sparse"
    ELSE IF star_count >= 10 THEN "complex_dense"
    ELSE IF Contains("linear", shape) \/ Contains("belt", shape) THEN "linear_arrangement"
    ELSE "moderate_distributed"

determine_spatial_distribution(shape, star_count) ==
    IF Contains("compact", shape) THEN "clustered_central"
    ELSE IF Contains("dispersed", shape) \/ Contains("cascade", shape) THEN "scattered_wide"
    ELSE IF Contains("linear", shape) \/ Contains("belt", shape) THEN "linear_arrangement"
    ELSE IF star_count <= 5 THEN "minimal_sparse"
    ELSE IF star_count >= 10 THEN "complex_dense"
    ELSE "moderate_distributed"

-----------------------------------------------------------------------------
(* extract_mythology_themes *)

\* [t.strip() for t in theme.split(',')], nothing for an empty theme
ExplicitThemes(theme) ==
    IF theme = "" THEN <<>>
    ELSE LET parts == SplitComma(theme)
         IN  [i \in 1..Len(parts) |-> Strip(parts[i])]

\* the tags the keyword scan of the story appends, in the order of the scan
ImpliedThemes(story) ==
       (IF Contains("rescue", story) \/ Contains("save", story)
        THEN <<"heroic rescue">> ELSE <<>>)
    \o (IF Contains("hunt", story) \/ Contains("prey", story)
        THEN <<"the hunt">> ELSE <<>>)
    \o (IF Contains("transform", story) THEN <<"transformation">> ELSE <<>>)
    \o (IF Contains("death", story) \/ Contains("kill", story) \/ Contains("slay", story)
        THEN <<"mortality">> ELSE <<>>)
    \o (IF Contains("eternal", story) \/ Contains("immortal", story)
        THEN <<"eternity">> ELSE <<>>)
    \o (IF Contains("love", story) THEN <<"love and loss">> ELSE <<>>)
    \o (IF Contains("wisdom", story) \/ Contains("teacher", story)
        THEN <<"wisdom">> ELSE <<>>)
    \o (IF Contains("punishment", story) THEN <<"divine punishment">> ELSE <<>>)

\* Truncate as it would be without the slice
TruncateNothing(themes) ==
    themes

\* themes[:5]
Truncate(themes) ==
    SubSeq(themes, 1, IF Len(themes) < 5 THEN Len(themes) ELSE 5)

extract_mythology_themes(metadata) ==
    LET story == Lower(Get(metadata, "story", ""))
        theme == Lower(Get(metadata, "theme", ""))
    IN  Truncate(ExplicitThemes(theme) \o ImpliedThemes(story))

-----------------------------------------------------------------------------
(* generate_suggested_elements *)

SuggestSubjects(story) ==
    IF Contains("hunt", story)
    THEN <<"figures in pursuit", "dynamic poses", "animals", "weapons">>
    ELSE IF Contains("rescue", story)
    THEN <<"hero and victim", "chains or bonds", "triumphant pose">>
    ELSE IF Contains("music", story) \/ Contains("lyre", story)
    THEN <<"musical instruments", "flowing fabric", "contemplative pose">>
    ELSE IF Contains("wisdom", story)
    THEN <<"scroll or book", "teaching gesture", "attentive students">>
    ELSE <<"primary figure", "supporting elements", "narrative props">>

SuggestLighting(brightness) ==
    IF Contains("extremely_bright", brightness)
    THEN <<"dramatic key light", "high contrast", "star-like highlights", "radiating glow">>
    ELSE IF Contains("two_bright", brightness)
    THEN <<"dual light sources", "balanced illumination", "twin highlights">>
    ELSE IF Contains("bright_cross", brightness)
    THEN <<"four-point lighting", "symmetrical illumination", "centered highlight">>
    ELSE <<"even lighting", "gentle highlights", "soft shadows">>

SuggestAtmosphere(shape) ==
    IF Contains("cascade", shape)
    THEN <<"flowing mist", "falling elements", "vertical movement">>
    ELSE IF Contains("curved", shape) \/ Contains("tail", shape)
    THEN <<"swirling smoke", "curved lines", "dynamic energy">>
    ELSE IF Contains("symmetric", shape) \/ Contains("cross", shape)
    THEN <<"balanced composition", "architectural elements", "formal symmetry">>
    ELSE <<"natural environment", "organic forms", "irregular shapes">>

SuggestPalette(theme) ==
    IF Contains("water", theme) \/ Contains("flow", theme)
    THEN <<"blues", "teals", "silver", "flowing gradients">>
    ELSE IF Contains("fire", theme) \/ Contains("power", theme)
    THEN <<"reds", "oranges", "golds", "warm tones">>
    ELSE IF Contains("death", theme) \/ Contains("darkness", theme)
    THEN <<"deep purples", "blacks", "dark blues", "somber tones">>
    ELSE IF Contains("wisdom", theme) \/ Contains("healing", theme)
    THEN <<"greens", "soft golds", "earth tones", "balanced hues">>
    ELSE <<"starlight whites", "night sky blues", "cosmic purples", "celestial palette">>

generate_suggested_elements(metadata, shape, brightness) ==
    [subjects |-> SuggestSubjects(Lower(Get(metadata, "story", ""))),
     lighting |-> SuggestLighting(brightness),
     atmosphere |-> SuggestAtmosphere(shape),
     color_palette |-> SuggestPalette(Lower(Get(metadata, "theme", "")))]

-----------------------------------------------------------------------------
(* map_constellation_to_composition *)

\* the CompositionParameters assembled from the focal points already
\* generated; no argument is validated, the canvas size is not read
Compose(metadata, geometry_data, include_mythology, focal_points) ==
    LET shape == Get(metadata, "shape", "dispersed")
    IN  [focal_points |-> focal_points,
         visual_flow |-> determine_visual_flow(shape, geometry_data),
         balance |-> calculate_balance(shape, focal_points, EngineTies),
         spatial_distribution |->
             determine_spatial_distribution(shape, Get(metadata, "star_count_visual", 5)),
         mythology_themes |->
             IF include_mythology THEN extract_mythology_themes(metadata) ELSE <<>>,
         suggested_elements |->
             generate_suggested_elements(metadata, shape,
                                         Get(metadata, "brightness_profile", "moderate"))]

\* the whole call run without interruption from generator state `state`:
\* the composition returned and the generator's state afterwards
map_constellation_to_composition(constellation_name, metadata, geometry_data, canvas_width, canvas_height, include_mythology, state) ==
    LET fp == generate_focal_points(Get(metadata, "brightness_profile", "moderate"),
                                    Get(metadata, "shape", "dispersed"),
                                    canvas_width, canvas_height, state)
    IN  [composition |-> Compose(metadata, geometry_data, include_mythology, fp.points),
         rng |-> fp.rng]

-----------------------------------------------------------------------------
(* Library use of the engine: map_constellation_to_composition called      *)
(* directly, one call after another, as examples/basic_usage.py does.      *)

\* the canvas sizes (width, height) the direct calls pass
CanvasSizes ==
    {<<1024, 1024>>, <<1920, 1080>>}

\* what an invocation of the engine is remembered as
Invocation(name, geometry_data, canvas_width, canvas_height, include_mythology, composition) ==
    [called |-> TRUE, constellation_name |-> name, geometry_data |-> geometry_data,
     canvas_width |-> canvas_width, canvas_height |-> canvas_height,
     include_mythology |-> include_mythology, composition |-> composition]

\* no invocation yet
NotCalled ==
    [called |-> FALSE]

\* the tool has returned nothing yet
NoResponse ==
    [kind |-> "none"]

InitMap ==
    /\ rng = Unseeded
    /\ engine = NotCalled
    /\ seen = NotCalled
    /\ inflight = {}
    /\ response = NoResponse
    /\ threads = <<>>
    /\ focal = NotCalled

\* metadata that is not in the catalog: a record with six theme fragments and
\* a story with every keyword family, and a record with no field but its name
ExtraRecords ==
    <<[name |-> "Custom", abbr |-> "Cus",
       story |-> "Immortal teacher transformed to save her love from the hunt, death and punishment",
       theme |-> "Fate, glory , honor, rebirth,sorrow, wonder",
       visual_character |-> "Square over a triangle",
       brightness_profile |-> "faint", star_count_visual |-> 3,
       shape |-> "square_triangular"],
      [name |-> "Bare"]>>

\* the records the direct calls pass as metadata
LibraryRecords ==
    CONSTELLATIONS \o ExtraRecords

\* one call of map_constellation_to_composition
CallMap ==
    \E i \in 1..Len(LibraryRecords), size \in CanvasSizes, include_mythology \in BOOLEAN :
        LET name == LibraryRecords[i].name
            r == map_constellation_to_composition(name, LibraryRecords[i], Null,
                                                  size[1], size[2], include_mythology, rng)
        IN  /\ engine' = Invocation(name, Null, size[1], size[2], include_mythology,
                                    r.composition)
            /\ rng' = r.rng
            /\ UNCHANGED <<seen, inflight, response, threads, focal>>

NextMap ==
    CallMap

SpecMap ==
    InitMap /\ [][NextMap]_vars

-----------------------------------------------------------------------------
(* Repeated calls.  A caller makes a call and keeps its result (seen) and   *)
(* later makes the same call again (engine); before and in between, calls  *)
(* for any records are made whose results are not kept.                    *)

\* the first call with the inputs that are going to be repeated
FirstCall ==
    /\ ~seen.called
    /\ \E i \in 1..Len(CONSTELLATIONS), size \in CanvasSizes, include_mythology \in BOOLEAN :
        LET name == CONSTELLATIONS[i].name
            r == map_constellation_to_composition(name, CONSTELLATIONS[i], Null,
                                                  size[1], size[2], include_mythology, rng)
        IN  /\ seen' = Invocation(name, Null, size[1], size[2], include_mythology,
                                  r.composition)
            /\ rng' = r.rng
            /\ UNCHANGED <<engine, inflight, response, threads, focal>>

\* a call for any record; only its effect on the generator is kept
OtherCall ==
    \E i \in 1..Len(CONSTELLATIONS), size \in CanvasSizes, include_mythology \in BOOLEAN :
        LET r == map_constellation_to_composition(CONSTELLATIONS[i].name, CONSTELLATIONS[i],
                                                  Null, size[1], size[2],
                                                  include_mythology, rng)
        IN  /\ rng' = r.rng
            /\ UNCHANGED <<engine, seen, inflight, response, threads, focal>>

\* the first call made again with identical inputs
RepeatCall ==
    /\ seen.called
    /\ LET r == map_constellation_to_composition(seen.constellation_name,
                                                 Metadata(seen.constellation_name),
                                                 seen.geometry_data, seen.canvas_width,
                                                 seen.canvas_height,
                                                 seen.include_mythology, rng)
       IN  /\ engine' = Invocation(seen.constellation_name, seen.geometry_data,
                                   seen.canvas_width, seen.canvas_height,
                                   seen.include_mythology, r.composition)
           /\ rng' = r.rng
           /\ UNCHANGED <<seen, inflight, response, threads, focal>>

NextRepeat ==
    FirstCall \/ OtherCall \/ RepeatCall

SpecRepeat ==
    InitMap /\ [][NextRepeat]_vars

-----------------------------------------------------------------------------
(* The same record mapped for two canvases.  A caller maps a record for    *)
(* one canvas (seen) and then again for another (engine); the sizes are    *)
(* those of CanvasSizes and sizes outside the bound of the request model,  *)
(* which a direct call does not pass through.                              *)

\* canvas sizes (width, height) with a dimension outside 512..4096
OutOfBoundSizes ==
    {<<100, 1024>>, <<1024, 5000>>}

\* the record of LibraryRecords with the name
LibraryRecord(name) ==
    LibraryRecords[CHOOSE i \in 1..Len(LibraryRecords) : LibraryRecords[i].name = name]

\* a call for any record and any canvas
CallSized ==
    /\ ~seen.called
    /\ \E i \in 1..Len(LibraryRecords), size \in CanvasSizes \cup OutOfBoundSizes,
          include_mythology \in BOOLEAN :
        LET name == LibraryRecords[i].name
            r == map_constellation_to_composition(name, LibraryRecords[i], Null,
                                                  size[1], size[2], include_mythology, rng)
        IN  /\ seen' = Invocation(name, Null, size[1], size[2], include_mythology,
                                  r.composition)
            /\ rng' = r.rng
            /\ UNCHANGED <<engine, inflight, response, threads, focal>>

\* the call made again for another canvas
CallResized ==
    /\ seen.called
    /\ \E size \in CanvasSizes \cup OutOfBoundSizes :
        LET r == map_constellation_to_composition(seen.constellation_name,
                                                  LibraryRecord(seen.constellation_name),
                                                  seen.geometry_data, size[1], size[2],
                                                  seen.include_mythology, rng)
        IN  /\ engine' = Invocation(seen.constellation_name, seen.geometry_data,
                                    size[1], size[2], seen.include_mythology,
                                    r.composition)
            /\ rng' = r.rng
            /\ UNCHANGED <<seen, inflight, response, threads, focal>>

NextCanvas ==
    CallSized \/ CallResized

SpecCanvas ==
    InitMap /\ [][NextCanvas]_vars

-----------------------------------------------------------------------------
(* generate_focal_points applied to tag pairs.  The tags are open strings: *)
(* the catalog's tags, the words the rules look for, and every two words   *)
(* joined, so that tags matching several rules occur.                      *)

ShapeWords ==
    {"cross", "belt", "hourglass", "w_zigzag", "dipper", "square", "triangular",
     "curved", "tail", "dispersed", "compact", "teapot"}

BrightnessWords ==
    {"two_bright_stars", "extremely_bright_star", "bright_cross", "moderate"}

ShapeTags ==
    ShapeWords \cup {a \o "_" \o b : a, b \in ShapeWords}
               \cup {CONSTELLATIONS[i].shape : i \in 1..Len(CONSTELLATIONS)}

BrightnessTags ==
    BrightnessWords \cup {a \o "_" \o b : a, b \in BrightnessWords}
                    \cup {CONSTELLATIONS[i].brightness_profile : i \in 1..Len(CONSTELLATIONS)}

InitTags ==
    /\ rng = Unseeded
    /\ engine = NotCalled
    /\ seen = NotCalled
    /\ inflight = {}
    /\ response = NoResponse
    /\ threads = <<>>
    /\ \E brightness \in BrightnessTags, shape \in ShapeTags :
           focal = [called |-> FALSE, brightness |-> brightness, shape |-> shape]

\* generate_focal_points(brightness, shape, 1024, 1024)
ApplyFocal ==
    /\ ~focal.called
    /\ LET r == generate_focal_points(focal.brightness, focal.shape, 1024, 1024, rng)
       IN  /\ focal' = [called |-> TRUE, brightness |-> focal.brightness,
                        shape |-> focal.shape, points |-> r.points]
           /\ rng' = r.rng
    /\ UNCHANGED <<engine, seen, inflight, response, threads>>

NextTags ==
    ApplyFocal

SpecTags ==
    InitTags /\ [][NextTags]_vars

-----------------------------------------------------------------------------
(* Engine calls running in threads of one process.  A call whose focal     *)
(* rule is not the dispersed one reads its arguments only and is one step. *)
(* A call taking the dispersed branch is a step for random.seed(42), then  *)
(* a step for each iteration of the loop (its three draws together), then  *)
(* a step for the rest of the call; other threads run between the steps.   *)

NumThreads == 2

\* the records the threads call the engine for
ThreadRecords ==
    {"Aquarius", "Gemini", "Orion"}

InitThreads ==
    /\ rng = Unseeded
    /\ engine = NotCalled
    /\ seen = NotCalled
    /\ inflight = {}
    /\ response = NoResponse
    /\ focal = NotCalled
    /\ threads = [t \in 1..NumThreads |-> [pc |-> "idle"]]

\* thread t enters map_constellation_to_composition and runs up to the
\* branch of generate_focal_points: to the end of the call unless the
\* branch is the dispersed one
Enter(t) ==
    /\ threads[t].pc = "idle"
    /\ \E name \in ThreadRecords, include_mythology \in BOOLEAN :
        LET metadata == Metadata(name)
            rule == FocalRule(Get(metadata, "brightness_profile", "moderate"),
                              Get(metadata, "shape", "dispersed"))
        IN  IF rule = 10
            THEN /\ threads' = [threads EXCEPT ![t] =
                         [pc |-> "seed", constellation_name |-> name,
                          include_mythology |-> include_mythology]]
                 /\ UNCHANGED rng
            ELSE LET r == map_constellation_to_composition(name, metadata, Null, 1024,
                                                           1024, include_mythology, rng)
                 IN  /\ threads' = [threads EXCEPT ![t] =
                             [pc |-> "done", constellation_name |-> name,
                              include_mythology |-> include_mythology,
                              composition |-> r.composition]]
                     /\ rng' = r.rng
    /\ UNCHANGED <<engine, seen, inflight, response, focal>>

\* random.seed(42)
Seed(t) ==
    /\ threads[t].pc = "seed"
    /\ rng' = RandomSeed(rng)
    /\ threads' = [threads EXCEPT ![t] =
           [pc |-> "loop", constellation_name |-> threads[t].constellation_name,
            include_mythology |-> threads[t].include_mythology, points |-> <<>>]]
    /\ UNCHANGED <<engine, seen, inflight, response, focal>>

\* one iteration of `for i in range(6)`
Draw(t) ==
    /\ threads[t].pc = "loop"
    /\ Len(threads[t].points) < 6
    /\ threads' = [threads EXCEPT ![t].points = Append(@, DispersedPoint(rng))]
    /\ rng' = rng + 3
    /\ UNCHANGED <<engine, seen, inflight, response, focal>>

\* the loop is over: generate_focal_points returns and the call completes
Return(t) ==
    /\ threads[t].pc = "loop"
    /\ Len(threads[t].points) = 6
    /\ threads' = [threads EXCEPT ![t] =
           [pc |-> "done", constellation_name |-> threads[t].constellation_name,
            include_mythology |-> threads[t].include_mythology,
            composition |-> Compose(Metadata(threads[t].constellation_name), Null,
                                    threads[t].include_mythology, threads[t].points)]]
    /\ UNCHANGED <<rng, engine, seen, inflight, response, focal>>

NextThreads ==
    \E t \in 1..NumThreads : Enter(t) \/ Seed(t) \/ Draw(t) \/ Return(t)

SpecThreads ==
    InitThreads /\ [][NextThreads]_vars

-----------------------------------------------------------------------------
(* The tool generate_constellation_composition.  Its argument is validated *)
(* against ConstellationCompositionInput before the tool body runs.  A     *)
(* request is a record; a field left out of the request is left out of the *)
(* record.  A canvas dimension is Optional[int]: Null models None, Some(n) *)
(* the integer n.                                                          *)

\* name.lower() for the catalog names, in the catalog's order
LowerNames ==
    [i \in 1..Len(CONSTELLATIONS) |-> Lower(CONSTELLATIONS[i].name)]

\* data['abbr'].lower() for the catalog records, in the catalog's order
LowerAbbrs ==
    [i \in 1..Len(CONSTELLATIONS) |-> Lower(CONSTELLATIONS[i].abbr)]

\* the first index at which sequence seq holds x
FirstIndex(seq, x) ==
    CHOOSE i \in 1..Len(seq) : seq[i] = x /\ \A j \in 1..(i - 1) : seq[j] # x

\* validate_constellation as it would be comparing without lower()
ValidateConstellationCaseSensitive(v) ==
    IF \E i \in 1..Len(CONSTELLATIONS) : CONSTELLATIONS[i].name = v
    THEN v
    ELSE IF \E i \in 1..Len(CONSTELLATIONS) : CONSTELLATIONS[i].abbr = v
    THEN CONSTELLATIONS[CHOOSE i \in 1..Len(CONSTELLATIONS) : CONSTELLATIONS[i].abbr = v].name
    ELSE v

\* ConstellationCompositionInput.validate_constellation: the catalog name
\* that v names, or v itself
validate_constellation(v) ==
    LET lv == Lower(v)
    IN  IF \E i \in 1..Len(LowerNames) : LowerNames[i] = lv
        THEN CONSTELLATIONS[FirstIndex(LowerNames, lv)].name
        ELSE IF \E i \in 1..Len(LowerAbbrs) : LowerAbbrs[i] = lv
        THEN CONSTELLATIONS[FirstIndex(LowerAbbrs, lv)].name
        ELSE v

\* the length constraint with min_length=4
NameLengthOkMinFour(v) ==
    Len(v) >= 4 /\ Len(v) <= 50

\* constellation_name: str, min_length=3, max_length=50, checked on the
\* stripped string (str_strip_whitespace)
NameLengthOk(v) ==
    Len(v) >= 3 /\ Len(v) <= 50

\* canvas_width, canvas_height: Optional[int], ge=512, le=4096; None passes
CanvasOk(c) ==
    c = Null \/ (c[1] >= 512 /\ c[1] <= 4096)

\* the fields of the request that fail validation
InvalidFields(req) ==
    {f \in {"constellation_name"} :
        \/ f \notin DOMAIN req
        \/ ~NameLengthOk(Strip(req[f]))}
    \cup {f \in {"canvas_width", "canvas_height"} : f \in DOMAIN req /\ ~CanvasOk(req[f])}

\* the validated model of a request without invalid fields, defaults filled in
Params(req) ==
    [constellation_name |-> validate_constellation(Strip(req.constellation_name)),
     canvas_width |-> Get(req, "canvas_width", Some(1024)),
     canvas_height |-> Get(req, "canvas_height", Some(1024)),
     include_mythology |-> Get(req, "include_mythology", TRUE)]

\* ', '.join(sorted(CONSTELLATIONS.keys()))
AvailableNames ==
    Join(", ", Sorted(Keys))

\* what the fetch of the line data can end in
FetchOutcomes ==
    {"feature", "no_feature", "timeout", "http_error", "malformed"}

\* fetch_constellation_data: the feature found for the abbreviation, None
\* when there is none and None when anything raises
fetch_constellation_data(constellation_abbr, outcome) ==
    IF outcome = "feature" THEN Some([properties |-> [id |-> constellation_abbr]]) ELSE Null

MaxInFlight == 2

\* the strings requests give as constellation_name
NameInputs ==
    {"Orion", "aqr", " GEMINI ", "Pegasuz", "Xyz", "Ursa", "Xy", " Xy   ",
     "Constellation of the great hunter with belt and sword"}

\* the values requests give as a canvas dimension
CanvasInputs ==
    {Null, Some(100), Some(512), Some(4097)}

\* the requests: every name with the defaults, and with a name that
\* resolves each canvas width, a height, and the mythology switched off;
\* a request with both fields wrong and one without a name
Requests ==
    {[constellation_name |-> n] : n \in NameInputs}
    \cup {[constellation_name |-> "Orion", canvas_width |-> w] : w \in CanvasInputs}
    \cup {[constellation_name |-> "Orion", canvas_height |-> Null],
          [constellation_name |-> "Orion", include_mythology |-> FALSE],
          [constellation_name |-> "Pegasuz", canvas_width |-> Some(100)],
          [canvas_width |-> Some(1024)]}

\* ConstellationCompositionInput(**req) for every request: the fields that
\* fail, and the validated model when none does
Validated ==
    [req \in Requests |->
        [errors |-> InvalidFields(req),
         params |-> IF InvalidFields(req) = {} THEN Params(req) ELSE None]]

Init ==
    /\ rng = Unseeded
    /\ engine = NotCalled
    /\ seen = NotCalled
    /\ inflight = {}
    /\ response = NoResponse
    /\ threads = <<>>
    /\ focal = NotCalled

\* a request fails validation: the tool body does not run
Reject ==
    \E req \in Requests :
        /\ Validated[req].errors # {}
        /\ response' = [kind |-> "invalid_input", request |-> req,
                        fields |-> Validated[req].errors]
        /\ engine' = NotCalled
        /\ UNCHANGED <<rng, inflight, seen, threads, focal>>

\* the tool body returns the error string for a name that is not a key
NotFound ==
    \E req \in Requests :
        /\ Validated[req].errors = {}
        /\ ~InCatalog(Validated[req].params.constellation_name)
        /\ response' = [kind |-> "not_found", request |-> req,
                        constellation_name |-> Validated[req].params.constellation_name,
                        available |-> AvailableNames]
        /\ engine' = NotCalled
        /\ UNCHANGED <<rng, inflight, seen, threads, focal>>

\* the tool body runs up to `await fetch_constellation_data(abbr)`
Await ==
    \E req \in Requests :
        /\ Validated[req].errors = {}
        /\ InCatalog(Validated[req].params.constellation_name)
        /\ Cardinality(inflight) < MaxInFlight
        /\ inflight' = inflight \cup {[request |-> req, params |-> Validated[req].params]}
        /\ UNCHANGED <<rng, engine, response, seen, threads, focal>>

\* the fetch ends and the tool body runs to its return: the engine is
\* invoked and the composition returned
Complete ==
    \E task \in inflight, outcome \in FetchOutcomes :
        LET params == task.params
            metadata == Metadata(params.constellation_name)
            geometry_data == fetch_constellation_data(metadata.abbr, outcome)
            r == map_constellation_to_composition(
                     params.constellation_name, metadata, geometry_data,
                     params.canvas_width, params.canvas_height,
                     params.include_mythology, rng)
        IN  /\ inflight' = inflight \ {task}
            /\ engine' = Invocation(params.constellation_name, geometry_data,
                                    params.canvas_width, params.canvas_height,
                                    params.include_mythology, r.composition)
            /\ response' = [kind |-> "ok", request |-> task.request,
                            constellation |-> params.constellation_name,
                            abbreviation |-> metadata.abbr,
                            canvas |-> [width |-> params.canvas_width,
                                        height |-> params.canvas_height],
                            composition |-> r.composition]
            /\ rng' = r.rng
            /\ UNCHANGED <<seen, threads, focal>>

Next ==
    Reject \/ NotFound \/ Await \/ Complete

Spec ==
    Init /\ [][Next]_vars

-----------------------------------------------------------------------------
(* validate_constellation applied to strings: the catalog's names and      *)
(* abbreviations in several letter cases, and strings close to them.       *)

RECURSIVE Upper(_)
\* s in capitals: the inverse of LowerChar on each letter
Upper(s) ==
    IF Len(s) = 0 THEN s
    ELSE LET c == SubSeq(s, 1, 1)
         IN  (IF \E u \in DOMAIN LowerOfUpper : LowerOfUpper[u] = c
              THEN CHOOSE u \in DOMAIN LowerOfUpper : LowerOfUpper[u] = c
              ELSE c) \o Upper(SubSeq(s, 2, Len(s)))

\* s written as it is, in small letters, in capitals, and with a small first
\* letter before capitals
LetterCases(s) ==
    {s, Lower(s), Upper(s), Lower(SubSeq(s, 1, 1)) \o Upper(SubSeq(s, 2, Len(s)))}

\* strings close to s: s without its last character, without its first, with
\* a character more, and with its last character replaced
NearMatches(s) ==
    {SubSeq(s, 1, Len(s) - 1), SubSeq(s, 2, Len(s)), s \o "s",
     SubSeq(s, 1, Len(s) - 1) \o "z"}

\* the strings validate_constellation is applied to
ResolveInputs ==
    UNION {LetterCases(CONSTELLATIONS[i].name) \cup LetterCases(CONSTELLATIONS[i].abbr)
           \cup NearMatches(CONSTELLATIONS[i].name) \cup NearMatches(CONSTELLATIONS[i].abbr) :
           i \in 1..Len(CONSTELLATIONS)}

InitResolve ==
    /\ rng = Unseeded
    /\ engine = NotCalled
    /\ seen = NotCalled
    /\ inflight = {}
    /\ response = NoResponse
    /\ threads = <<>>
    /\ \E v \in ResolveInputs : focal = [called |-> FALSE, v |-> v]

\* validate_constellation(v), and the lookup of the tool body on its result
ApplyResolve ==
    /\ ~focal.called
    /\ focal' = [called |-> TRUE, v |-> focal.v,
                 name |-> validate_constellation(focal.v),
                 found |-> InCatalog(validate_constellation(focal.v))]
    /\ UNCHANGED <<rng, engine, seen, inflight, response, threads>>

NextResolve ==
    ApplyResolve

SpecResolve ==
    InitResolve /\ [][NextResolve]_vars

-----------------------------------------------------------------------------
(* The tool search_constellations.  Its three filters are Optional[str],   *)
(* stripped of surrounding whitespace by ConstellationSearchInput; the     *)
(* rendering of the result list (markdown or JSON) is not modelled.        *)

\* the validated ConstellationSearchInput of a request
SearchParams(req) ==
    [f \in {"query", "shape_type", "brightness"} |->
        IF f \in DOMAIN req /\ req[f] # Null THEN Some(Strip(req[f][1])) ELSE Null]

\* `if params.query:` for an Optional[str]: neither None nor empty
Truthy(opt) ==
    opt # Null /\ opt[1] # ""

\* f"{name} {story} {theme} {visual_character}".lower() for each record
LowerSearchable ==
    [i \in 1..Len(CONSTELLATIONS) |->
        Lower(CONSTELLATIONS[i].name \o " " \o Get(CONSTELLATIONS[i], "story", "")
              \o " " \o Get(CONSTELLATIONS[i], "theme", "")
              \o " " \o Get(CONSTELLATIONS[i], "visual_character", ""))]

\* the loop body with a record passing when any one filter given holds
MatchAnyFilter(i, params) ==
    \/ ~Truthy(params.query) /\ ~Truthy(params.shape_type) /\ ~Truthy(params.brightness)
    \/ Truthy(params.query) /\ Contains(Lower(params.query[1]), LowerSearchable[i])
    \/ /\ Truthy(params.shape_type)
       /\ Contains(Lower(params.shape_type[1]), Lower(Get(CONSTELLATIONS[i], "shape", "")))
    \/ /\ Truthy(params.brightness)
       /\ Contains(Lower(params.brightness[1]),
                   Lower(Get(CONSTELLATIONS[i], "brightness_profile", "")))

\* the value of `match` at the end of the loop body for record i
Match(i, params) ==
    LET after_query ==
            IF Truthy(params.query)
            THEN Contains(Lower(params.query[1]), LowerSearchable[i])
            ELSE TRUE
        after_shape ==
            IF Truthy(params.shape_type) /\ after_query
            THEN Contains(Lower(params.shape_type[1]),
                          Lower(Get(CONSTELLATIONS[i], "shape", "")))
            ELSE after_query
    IN  IF Truthy(params.brightness) /\ after_shape
        THEN Contains(Lower(params.brightness[1]),
                      Lower(Get(CONSTELLATIONS[i], "brightness_profile", "")))
        ELSE after_shape

\* the dict appended to results for record i
SearchResult(i) ==
    [name |-> CONSTELLATIONS[i].name,
     abbr |-> Get(CONSTELLATIONS[i], "abbr", None),
     story |-> Get(CONSTELLATIONS[i], "story", None),
     theme |-> Get(CONSTELLATIONS[i], "theme", None),
     visual_character |-> Get(CONSTELLATIONS[i], "visual_character", None),
     shape |-> Get(CONSTELLATIONS[i], "shape", None),
     brightness_profile |-> Get(CONSTELLATIONS[i], "brightness_profile", None),
     star_count |-> Get(CONSTELLATIONS[i], "star_count_visual", None)]

RECURSIVE SearchFrom(_, _)
\* the results appended for the records from index i on
SearchFrom(i, params) ==
    IF i > Len(CONSTELLATIONS) THEN <<>>
    ELSE (IF Match(i, params) THEN <<SearchResult(i)>> ELSE <<>>)
         \o SearchFrom(i + 1, params)

\* search_constellations: the message when nothing matched, else the results
search_constellations(params) ==
    LET results == SearchFrom(1, params)
    IN  IF results = <<>>
        THEN [kind |-> "message",
              text |-> "No constellations found matching your criteria. Try broader search terms."]
        ELSE [kind |-> "results", constellations |-> results, count |-> Len(results)]

\* the values requests give for query, shape_type and brightness
QueryInputs ==
    {Null, Some(""), Some("hunt"), Some("ORION"), Some("orion great"), Some("  Twin "),
     Some("bright"), Some("an"), Some("zzz")}

ShapeInputs ==
    {Null, Some("compact"), Some("BELT"), Some("dipper"), Some("spiral")}

BrightnessInputs ==
    {Null, Some("bright"), Some("Very_Bright"), Some("faint")}

SearchRequests ==
    {[query |-> q, shape_type |-> s, brightness |-> b] :
        q \in QueryInputs, s \in ShapeInputs, b \in BrightnessInputs}
    \cup {[query |-> q] : q \in QueryInputs}

InitSearch ==
    /\ rng = Unseeded
    /\ engine = NotCalled
    /\ seen = NotCalled
    /\ inflight = {}
    /\ response = NoResponse
    /\ threads = <<>>
    /\ \E req \in SearchRequests : focal = [called |-> FALSE, request |-> req]

\* the tool runs on the validated request
Search ==
    /\ ~focal.called
    /\ focal' = [called |-> TRUE, request |-> focal.request,
                 params |-> SearchParams(focal.request),
                 result |-> search_constellations(SearchParams(focal.request))]
    /\ UNCHANGED <<rng, engine, seen, inflight, response, threads>>

NextSearch ==
    Search

SpecSearch ==
    InitSearch /\ [][NextSearch]_vars

-----------------------------------------------------------------------------
(* The engine applied to metadata built from tags.  metadata is any dict:  *)
(* here its shape tag is a word the classifiers look for, two such words   *)
(* joined, or a catalog tag, so that tags matching several branches and    *)
(* tags matching none occur, with each brightness word and star counts on  *)
(* both sides of the thresholds.                                           *)

\* the words the classifiers look for in a shape tag, and one they do not
ClassifierWords ==
    ShapeWords \cup {"cascade", "wings", "symmetric", "linear", "zigzag", "w_"}

ClassifierTags ==
    ClassifierWords \cup {a \o "_" \o b : a, b \in ClassifierWords}
                    \cup {CONSTELLATIONS[i].shape : i \in 1..Len(CONSTELLATIONS)}

\* star counts around the thresholds 5 and 10
StarCounts ==
    {1, 5, 6, 9, 10, 12}

InitClassify ==
    /\ rng = Unseeded
    /\ engine = NotCalled
    /\ seen = NotCalled
    /\ inflight = {}
    /\ response = NoResponse
    /\ threads = <<>>
    /\ \E shape \in ClassifierTags, brightness \in BrightnessWords, star_count \in StarCounts :
           focal = [called |-> FALSE,
                    metadata |-> [name |-> "Tagged", shape |-> shape,
                                  brightness_profile |-> brightness,
                                  star_count_visual |-> star_count]]

\* map_constellation_to_composition on the metadata drawn
MapTagged ==
    /\ ~focal.called
    /\ LET r == map_constellation_to_composition(focal.metadata.name, focal.metadata, Null,
                                                 1024, 1024, TRUE, rng)
       IN  /\ engine' = Invocation(focal.metadata.name, Null, 1024, 1024, TRUE,
                                   r.composition)
           /\ rng' = r.rng
    /\ focal' = [called |-> TRUE, metadata |-> focal.metadata]
    /\ UNCHANGED <<seen, inflight, response, threads>>

NextClassify ==
    MapTagged

SpecClassify ==
    InitClassify /\ [][NextClassify]_vars

-----------------------------------------------------------------------------
(* calculate_balance applied to point lists: the eleven lists of           *)
(* generate_focal_points, one point of weight 1.0 at coordinates around    *)
(* the thresholds 0.4 and 0.6, and two points of equal weight.             *)

\* coordinates on both sides of 0.4 and of 0.6, and at them
Coordinates ==
    {2000, 3999, 4000, 4001, 5000, 5999, 6000, 6001, 8000}

\* coordinates of the points of a pair
PairCoordinates ==
    {1000, 5000, 9000}

BalanceInputs ==
    {RulePoints(rule, RandomSeed(Unseeded)) : rule \in 1..11}
    \cup {<<Point(x, y, Unit)>> : x, y \in Coordinates}
    \cup {<<Point(x1, y1, 5000), Point(x2, y2, 5000)>> : x1, y1, x2, y2 \in PairCoordinates}

InitBalance ==
    /\ rng = Unseeded
    /\ engine = NotCalled
    /\ seen = NotCalled
    /\ inflight = {}
    /\ response = NoResponse
    /\ threads = <<>>
    /\ \E points \in BalanceInputs : focal = [called |-> FALSE, points |-> points]

\* calculate_balance(shape, points) for a shape tag no test looks for
Balance ==
    /\ ~focal.called
    /\ \E tie_x, tie_y \in TieOutcomes(focal.points) :
           focal' = [called |-> TRUE, points |-> focal.points,
                     balance |-> calculate_balance("teapot", focal.points,
                                                   [x |-> tie_x, y |-> tie_y])]
    /\ UNCHANGED <<rng, engine, seen, inflight, response, threads>>

NextBalance ==
    Balance

SpecBalance ==
    InitBalance /\ [][NextBalance]_vars

-----------------------------------------------------------------------------
(* The engine applied to any metadata.  metadata is any dict of strings:   *)
(* each of shape, brightness_profile, story, theme and star_count_visual   *)
(* is present or absent; the tags are the words the classifiers look for,  *)
(* the catalog's tags, the empty string and tags containing no such word;  *)
(* the texts hold one keyword each, several, or none.                      *)

\* shape tags; "Teapot" and "" contain no word any classifier looks for
TotalShapes ==
    ClassifierWords \cup {CONSTELLATIONS[i].shape : i \in 1..Len(CONSTELLATIONS)}
                    \cup {"", "Teapot", "CROSS"}

\* brightness tags; "faint", "" and "TWO_BRIGHT_STARS" match no test
TotalBrightness ==
    BrightnessWords \cup {"", "faint", "TWO_BRIGHT_STARS", "two_bright", "extremely_bright"}

\* story texts: .lower() is applied before the keywords are looked for
TotalStories ==
    {"", "The great HUNT", "rescued by Perseus", "Music of the lyre",
     "Wisdom of a teacher", "A ship sails on", "hunt, rescue!"}

\* theme texts: .lower() is applied before the keywords are looked for
TotalThemes ==
    {"", "Water", "Fire, power", "death,, darkness", "Healing", " , ", "Voyage"}

\* star_count_visual values
TotalStarCounts ==
    {12}

\* the value present, or the key absent
Optional(values) ==
    {Null} \cup {Some(v) : v \in values}

\* the dict with the keys that are given (boxed), and a name
TaggedMetadata(given) ==
    [k \in {key \in DOMAIN given : given[key] # Null} \cup {"name"} |->
        IF k = "name" THEN "Tagged" ELSE given[k][1]]

InitTotal ==
    /\ rng = Unseeded
    /\ engine = NotCalled
    /\ seen = NotCalled
    /\ inflight = {}
    /\ response = NoResponse
    /\ threads = <<>>
    /\ \E shape \in Optional(TotalShapes), brightness \in Optional(TotalBrightness),
          story \in Optional(TotalStories), theme \in Optional(TotalThemes),
          star_count \in Optional(TotalStarCounts) :
           focal = [called |-> FALSE,
                    metadata |-> TaggedMetadata([shape |-> shape,
                                                 brightness_profile |-> brightness,
                                                 story |-> story, theme |-> theme,
                                                 star_count_visual |-> star_count])]

\* map_constellation_to_composition on the metadata drawn, with or without
\* the mythology themes
MapAny ==
    /\ ~focal.called
    /\ \E include_mythology \in BOOLEAN :
        LET r == map_constellation_to_composition("Tagged", focal.metadata, Null,
                                                  1024, 1024, include_mythology, rng)
        IN  /\ engine' = Invocation("Tagged", Null, 1024, 1024, include_mythology,
                                    r.composition)
            /\ rng' = r.rng
    /\ focal' = [called |-> TRUE, metadata |-> focal.metadata]
    /\ UNCHANGED <<seen, inflight, response, threads>>

NextTotal ==
    MapAny

SpecTotal ==
    InitTotal /\ [][NextTotal]_vars

-----------------------------------------------------------------------------
(* Properties *)

\* whether the k-th focal-point rule of the specification's list is satisfied
RuleSatisfied(k, brightness, shape) ==
    CASE k = 1 -> Contains("two_bright_stars", brightness)
      [] k = 2 -> Contains("extremely_bright_star", brightness)
      [] k = 3 -> Contains("bright_cross", brightness) \/ Contains("cross", shape)
      [] k = 4 -> Contains("belt", shape) \/ Contains("hourglass", shape)
      [] k = 5 -> Contains("w_zigzag", shape)
      [] k = 6 -> Contains("dipper", shape)
      [] k = 7 -> Contains("square", shape)
      [] k = 8 -> Contains("triangular", shape)
      [] k = 9 -> Contains("curved", shape) \/ Contains("tail", shape)
      [] k = 10 -> Contains("dispersed", shape)
      [] OTHER -> TRUE

\* the earliest satisfied rule of the list
EarliestRule(brightness, shape) ==
    CHOOSE k \in 1..11 :
        /\ RuleSatisfied(k, brightness, shape)
        /\ \A j \in 1..(k - 1) : ~RuleSatisfied(j, brightness, shape)

\* the number of points each rule of the list yields
RulePointCount ==
    <<2, 3, 5, 5, 5, 7, 4, 3, 7, 6, 3>>

\* the four corner points of the square rule
SquareCorners ==
    <<Point(3500, 3500, 3000), Point(6500, 3500, 3000),
      Point(6500, 6500, 3000), Point(3500, 6500, 3000)>>

\* C1: focal-point classification is first-match-wins over the 11 rules in
\* the listed order: for every (brightness tag, shape tag) pair, pairs that
\* satisfy several rules included, generate_focal_points returns as many
\* points as the earliest satisfied rule yields; a shape tag containing both
\* "square" and "triangular", when no earlier rule is satisfied, yields the
\* four corner points of the square rule.
C1_FirstMatchWins ==
    focal.called =>
        /\ Len(focal.points)
               = RulePointCount[EarliestRule(focal.brightness, focal.shape)]
        /\ ( /\ Contains("square", focal.shape)
             /\ Contains("triangular", focal.shape)
             /\ \A j \in 1..6 : ~RuleSatisfied(j, focal.brightness, focal.shape) )
           => focal.points = SquareCorners

\* generate_focal_points has been applied to a shape tag that satisfies both
\* the square and the triangular rule and returned the four corners
C1_Witness ==
    /\ focal.called
    /\ focal.shape = "triangular_square"
    /\ focal.brightness = "moderate"
    /\ focal.points = SquareCorners

\* C2: for every record in the catalog and either value of the mythology
\* flag, map_constellation_to_composition returns a non-empty focal-point
\* list in which every point has x in [0,1], y in [0,1] and weight in (0,1].
C2_FocalPointsInRange ==
    (engine.called /\ InCatalog(engine.constellation_name)) =>
        LET points == engine.composition.focal_points
        IN  /\ Len(points) >= 1
            /\ \A j \in 1..Len(points) :
                   /\ 0 <= points[j].x /\ points[j].x <= Unit
                   /\ 0 <= points[j].y /\ points[j].y <= Unit
                   /\ 0 < points[j].weight /\ points[j].weight <= Unit

\* the engine has returned the six dispersed points for the catalog record
\* Aquarius, the first of them (0.5836, 0.2150, 0.2550)
C2_Witness ==
    /\ engine.called
    /\ engine.constellation_name = "Aquarius"
    /\ Len(engine.composition.focal_points) = 6
    /\ engine.composition.focal_points[1] = Point(5836, 2150, 2550)

\* C3: determinism: a call made again with the same record, canvas size and
\* mythology flag, after any calls for any records in between, returns focal
\* points identical to those of the first such call; for a dispersed shape
\* they are the six points drawn from the generator freshly seeded with 42.
C3_RepeatableFocalPoints ==
    (seen.called /\ engine.called) =>
        /\ engine.constellation_name = seen.constellation_name
        /\ engine.canvas_width = seen.canvas_width
        /\ engine.canvas_height = seen.canvas_height
        /\ engine.include_mythology = seen.include_mythology
        /\ engine.composition.focal_points = seen.composition.focal_points
        /\ engine.constellation_name = "Aquarius" =>
               engine.composition.focal_points
                   = [j \in 1..6 |-> DispersedPoint(3 * (j - 1))]

\* the call for the dispersed record Aquarius has been made a first time
\* and made again
C3_Witness ==
    /\ seen.called
    /\ engine.called
    /\ engine.constellation_name = "Aquarius"
    /\ Len(engine.composition.focal_points) = 6
    /\ rng = 18

\* C4: concurrent mapping calls need no coordination: when calls run with
\* their steps interleaved, each call returns exactly the result it returns
\* when run alone.
C4_ThreadsIsolated ==
    \A t \in 1..NumThreads :
        threads[t].pc = "done" =>
            threads[t].composition
                = map_constellation_to_composition(
                      threads[t].constellation_name,
                      Metadata(threads[t].constellation_name), Null, 1024, 1024,
                      threads[t].include_mythology, Unseeded).composition

\* C5: balance invariant: for every catalog record the center_of_mass in
\* balance is the weighted average of the focal points of the same result,
\* cx = sum(x*w)/sum(w) and cy = sum(y*w)/sum(w) (here: the quotient floored
\* to a multiple of 1/Unit), with sum(w) > 0.
C5_CenterIsWeightedAverage ==
    (engine.called /\ InCatalog(engine.constellation_name)) =>
        LET points == engine.composition.focal_points
            center == engine.composition.balance.center_of_mass
            w == SumWeight(points)
        IN  /\ w > 0
            /\ center.x * w <= SumXWeight(points)
            /\ SumXWeight(points) < (center.x + 1) * w
            /\ center.y * w <= SumYWeight(points)
            /\ SumYWeight(points) < (center.y + 1) * w

\* the engine has returned for Orion, whose weights do not sum to 1 and
\* whose centroid is (0.5, 0.4625)
C5_Witness ==
    /\ engine.called
    /\ engine.constellation_name = "Orion"
    /\ SumWeight(engine.composition.focal_points) = 16000
    /\ engine.composition.balance.center_of_mass = [x |-> 5000, y |-> 4625]

\* C6: theme truncation: mythology_themes has at most 5 entries for every
\* record, and for every catalog record it is empty exactly when
\* include_mythology is false.
C6_ThemesTruncated ==
    engine.called =>
        /\ Len(engine.composition.mythology_themes) <= 5
        /\ InCatalog(engine.constellation_name) =>
               (engine.composition.mythology_themes = <<>>
                    <=> ~engine.include_mythology)

\* the engine has returned the first five of the fourteen themes of the
\* record "Custom"
C6_Witness ==
    /\ engine.called
    /\ engine.constellation_name = "Custom"
    /\ engine.include_mythology
    /\ engine.composition.mythology_themes
           = <<"fate", "glory", "honor", "rebirth", "sorrow">>

\* C7 as stated: for the catalog record Orion the spatial distribution is
\* decided by the star-count threshold rule and is "complex_dense".
C7_OrionComplexDense ==
    (engine.called /\ engine.constellation_name = "Orion") =>
        engine.composition.spatial_distribution = "complex_dense"

\* C7 amended: for the catalog record Orion (shape hourglass_belt, star
\* count 10) the spatial distribution is decided by the shape rule for
\* "belt", which precedes the star-count thresholds, and is
\* "linear_arrangement".
C7_OrionLinearArrangement ==
    (engine.called /\ engine.constellation_name = "Orion") =>
        /\ Contains("belt", Metadata("Orion").shape)
        /\ Metadata("Orion").star_count_visual >= 10
        /\ engine.composition.spatial_distribution = "linear_arrangement"

\* the engine has returned for Orion
C7_Witness ==
    /\ engine.called
    /\ engine.constellation_name = "Orion"
    /\ engine.composition.spatial_distribution = "linear_arrangement"

\* C8: for the catalog record Gemini the result has exactly the two focal
\* points (0.35, 0.5, 0.5) and (0.65, 0.5, 0.5) in this order, centroid
\* (0.5, 0.5), balance_type "centered", stability "high" and symmetry
\* "asymmetric".
C8_GeminiScenario ==
    (engine.called /\ engine.constellation_name = "Gemini") =>
        /\ engine.composition.focal_points
               = <<Point(3500, 5000, 5000), Point(6500, 5000, 5000)>>
        /\ engine.composition.balance
               = [balance_type |-> "centered",
                  center_of_mass |-> [x |-> 5000, y |-> 5000],
                  symmetry |-> "asymmetric", stability |-> "high"]

\* the engine has returned for Gemini
C8_Witness ==
    /\ engine.called
    /\ engine.constellation_name = "Gemini"
    /\ Len(engine.composition.focal_points) = 2

\* the string equals no catalog name and no catalog abbreviation under
\* case-insensitive comparison
Unresolvable(v) ==
    \A i \in 1..Len(CONSTELLATIONS) :
        Lower(v) # Lower(CONSTELLATIONS[i].name) /\ Lower(v) # Lower(CONSTELLATIONS[i].abbr)

\* the names of a not-found payload, in the payload's order: the pieces
\* between its ", " separators
ListedNames(available) ==
    LET seps == {i \in 1..(Len(available) - 1) : SubSeq(available, i, i + 1) = ", "}
        starts == {1} \cup {i + 2 : i \in seps}
        ends == {i - 1 : i \in seps} \cup {Len(available)}
        start(k) == CHOOSE t \in starts : Cardinality({u \in starts : u < t}) = k - 1
        end(k) == CHOOSE e \in ends : e >= start(k) /\ \A f \in ends : f >= start(k) => e <= f
    IN  [k \in 1..Cardinality(starts) |-> SubSeq(available, start(k), end(k))]

\* the payload lists every catalog name, once, in ascending order
ListsCatalogSorted(available) ==
    LET names == ListedNames(available)
    IN  /\ {names[i] : i \in 1..Len(names)} = {CONSTELLATIONS[i].name : i \in 1..Len(CONSTELLATIONS)}
        /\ \A i \in 1..(Len(names) - 1) : StrLess(names[i], names[i + 1])

\* the tool answered a request with NotFound, the sorted catalog names as
\* payload, and no composition
AnsweredNotFound ==
    /\ response.kind = "not_found"
    /\ ListsCatalogSorted(response.available)
    /\ ~engine.called

\* C9 as stated: a request whose name equals no catalog name and no catalog
\* abbreviation under case-insensitive comparison, whatever its length, is
\* answered with NotFound listing every catalog name in sorted order, not
\* with a validation failure, and no composition is produced.
C9_NotFoundWhateverLength ==
    (/\ response.kind # "none"
     /\ "constellation_name" \in DOMAIN response.request
     /\ Unresolvable(response.request.constellation_name))
        => AnsweredNotFound

\* C9 amended: a request with valid canvas dimensions whose name, once
\* surrounding whitespace is stripped, has 3 to 50 characters and equals no
\* catalog name and no catalog abbreviation under case-insensitive comparison
\* is answered with NotFound listing every catalog name in sorted order, and
\* no composition is produced.
C9_NotFoundWithinLength ==
    (/\ response.kind # "none"
     /\ "constellation_name" \in DOMAIN response.request
     /\ \A f \in {"canvas_width", "canvas_height"} :
            f \in DOMAIN response.request =>
                (response.request[f] # <<>> => response.request[f][1] \in 512..4096)
     /\ Len(Strip(response.request.constellation_name)) \in 3..50
     /\ Unresolvable(Strip(response.request.constellation_name)))
        => AnsweredNotFound

\* the three-character name "Xyz" was answered with NotFound
C9_Witness ==
    /\ response.kind = "not_found"
    /\ response.request.constellation_name = "Xyz"
    /\ response.constellation_name = "Xyz"
    /\ Len(ListedNames(response.available)) = 22
    /\ ListedNames(response.available)[1] = "Andromeda"
    /\ ~engine.called

\* C10 as stated: a request with a canvas dimension outside [512,4096] is
\* rejected as InvalidInput without invoking the mapping engine, and the
\* mapping engine is invoked only with both canvas dimensions integers within
\* [512,4096].
C10_EngineCanvasInRange ==
    /\ response.kind = "invalid_input" => ~engine.called
    /\ engine.called =>
        \A c \in {engine.canvas_width, engine.canvas_height} :
            Len(c) = 1 /\ c[1] \in 512..4096

\* the canvas size is within the bound of the request model
InBound(canvas_width, canvas_height) ==
    canvas_width \in 512..4096 /\ canvas_height \in 512..4096

\* C11 as stated: called with a canvas width or height outside the supported
\* bound, or with a record that is absent from the catalog, the mapping
\* engine fails with InvalidInput and returns no composition.
C11_EngineRejectsInvalid ==
    (/\ seen.called
     /\ \/ ~InBound(seen.canvas_width, seen.canvas_height)
        \/ ~InCatalog(seen.constellation_name))
        => "focal_points" \notin DOMAIN seen.composition

\* C12: for every record and mythology flag, the compositions the engine
\* returns for two canvas sizes within [512,4096] are equal in every field.
C12_CanvasIndependence ==
    (/\ seen.called
     /\ engine.called
     /\ InBound(seen.canvas_width, seen.canvas_height)
     /\ InBound(engine.canvas_width, engine.canvas_height))
        => /\ engine.constellation_name = seen.constellation_name
           /\ engine.include_mythology = seen.include_mythology
           /\ engine.composition = seen.composition

\* Aquarius, whose points are drawn, was mapped for 1024x1024 and then for
\* 1920x1080
C12_Witness ==
    /\ seen.called
    /\ engine.called
    /\ seen.constellation_name = "Aquarius"
    /\ <<seen.canvas_width, seen.canvas_height>> = <<1024, 1024>>
    /\ <<engine.canvas_width, engine.canvas_height>> = <<1920, 1080>>
    /\ Len(engine.composition.focal_points) = 6
    /\ engine.composition.focal_points[1] = Point(5836, 2150, 2550)

\* C13: whatever the fetch of the geometry data ends in (a feature, no
\* feature for the abbreviation, timeout, HTTP error, malformed payload), the
\* tool call that awaited it returns the composition, never an error, and
\* the composition is the one the engine gives without geometry data.
C13_FetchFailOpen ==
    [][\A call \in inflight :
        inflight' = inflight \ {call} =>
            /\ response'.kind = "ok"
            /\ response'.request = call.request
            /\ response'.constellation = call.params.constellation_name
            /\ response'.composition =
                   map_constellation_to_composition(
                       call.params.constellation_name,
                       Metadata(call.params.constellation_name), Null,
                       call.params.canvas_width, call.params.canvas_height,
                       call.params.include_mythology, rng).composition]_vars

\* a call for Gemini whose fetch gave no data returned the composition
C13_Witness ==
    /\ response.kind = "ok"
    /\ response.constellation = "Gemini"
    /\ engine.called
    /\ engine.geometry_data = Null
    /\ response.composition = engine.composition
    /\ response.composition.visual_flow.flow_type = "balanced"

\* C14: the catalog is not empty and its names and its abbreviations are
\* unique whatever the letter case; a string equal to a record's name or
\* abbreviation up to letter case resolves to that record's name; a string
\* equal to none (a prefix, a substring, a misspelling) resolves to no
\* record.
C14_NameResolution ==
    /\ Len(CONSTELLATIONS) > 0
    /\ \A i, j \in 1..Len(CONSTELLATIONS) :
           i # j => /\ Lower(CONSTELLATIONS[i].name) # Lower(CONSTELLATIONS[j].name)
                    /\ Lower(CONSTELLATIONS[i].abbr) # Lower(CONSTELLATIONS[j].abbr)
    /\ focal.called =>
        /\ \A i \in 1..Len(CONSTELLATIONS) :
               (\/ Lower(focal.v) = Lower(CONSTELLATIONS[i].name)
                \/ Lower(focal.v) = Lower(CONSTELLATIONS[i].abbr))
                   => focal.found /\ focal.name = CONSTELLATIONS[i].name
        /\ Unresolvable(focal.v) => ~focal.found /\ focal.name = focal.v

\* the abbreviation of Ursa Major in mixed case resolved to Ursa Major, and
\* a misspelling resolved to nothing
C14_Witness ==
    /\ focal.called
    /\ focal.v = "uMA"
    /\ focal.name = "Ursa Major"
    /\ focal.found
    /\ validate_constellation("Ursa Majoz") = "Ursa Majoz"
    /\ "Ursa Majoz" \in ResolveInputs

\* the text a query is looked for in: name, story, theme and visual
\* character joined by single spaces, in small letters
SearchedText ==
    [i \in 1..Len(CONSTELLATIONS) |->
        Lower(CONSTELLATIONS[i].name \o " " \o CONSTELLATIONS[i].story \o " "
              \o CONSTELLATIONS[i].theme \o " " \o CONSTELLATIONS[i].visual_character)]

\* a filter that is given: not absent and not empty
Provided(filter) ==
    filter # <<>> /\ filter # <<"">>

\* record i satisfies every filter provided
SatisfiesAll(i, params) ==
    /\ Provided(params.query) => Contains(Lower(params.query[1]), SearchedText[i])
    /\ Provided(params.shape_type) =>
           Contains(Lower(params.shape_type[1]), Lower(CONSTELLATIONS[i].shape))
    /\ Provided(params.brightness) =>
           Contains(Lower(params.brightness[1]), Lower(CONSTELLATIONS[i].brightness_profile))

\* C15: search returns exactly the catalog records that satisfy all provided
\* filters at once, each once: the query a case-insensitive substring of
\* name, story, theme and visual character put together, the shape filter of
\* the shape tag, the brightness filter of the brightness tag; an absent
\* filter constrains nothing; when no record satisfies them the "no matches"
\* message is returned instead of an empty list.
C15_SearchReturnsMatches ==
    focal.called =>
        LET matching == {i \in 1..Len(CONSTELLATIONS) : SatisfiesAll(i, focal.params)}
            result == focal.result
        IN  IF matching = {}
            THEN /\ result.kind = "message"
                 /\ Contains("No constellations found", result.text)
            ELSE /\ result.kind = "results"
                 /\ Len(result.constellations) = Cardinality(matching)
                 /\ {result.constellations[k].name : k \in 1..Len(result.constellations)}
                        = {CONSTELLATIONS[i].name : i \in matching}

\* the query "hunt" with the shape filter "BELT" and the brightness filter
\* "bright" returned Orion alone, of the two records the query alone matches
C15_Witness ==
    /\ focal.called
    /\ focal.request = [query |-> <<"hunt">>, shape_type |-> <<"BELT">>,
                        brightness |-> <<"bright">>]
    /\ focal.result.kind = "results"
    /\ Len(focal.result.constellations) = 1
    /\ focal.result.constellations[1].name = "Orion"
    /\ Len(search_constellations(SearchParams([query |-> <<"hunt">>])).constellations) = 2

\* C16 as stated: mythology_themes never holds a theme twice: an implied tag
\* is appended only when the explicit theme fragments, or an earlier implied
\* tag, do not hold it already.
C16_NoDuplicateThemes ==
    engine.called =>
        LET themes == engine.composition.mythology_themes
        IN  \A i, j \in 1..Len(themes) : i # j => themes[i] # themes[j]

\* the points of the triangular rule
TriangularPoints ==
    generate_focal_points("moderate", "triangular", 1024, 1024, Unseeded).points

\* an apex above two base points to its left and to its right
ApexAndBase(points) ==
    /\ Len(points) = 3
    /\ points[1].y < points[2].y
    /\ points[2].y = points[3].y
    /\ points[2].x < points[1].x
    /\ points[1].x < points[3].x

\* the weights of a list of points, in order
Weights(points) ==
    [i \in 1..Len(points) |-> points[i].weight]

\* the positions of a list of points, in order
Positions(points) ==
    [i \in 1..Len(points) |-> <<points[i].x, points[i].y>>]

\* C17 as stated: when no rule matches, the three points returned are an
\* apex and two base points that differ from the triangular rule's points
\* in position and in weighting: the weight triples are not equal.
C17_DefaultWeightsDiffer ==
    (focal.called /\ \A k \in 1..10 : ~RuleSatisfied(k, focal.brightness, focal.shape))
        => /\ ApexAndBase(focal.points)
           /\ Positions(focal.points) # Positions(TriangularPoints)
           /\ Weights(focal.points) # Weights(TriangularPoints)

\* C17 amended: when no rule matches, the three points returned are an apex
\* and two base points that differ from the triangular rule's points in the
\* height of the apex only (0.35 instead of 0.3): the base points are the
\* same and the weight triples are equal, (0.4, 0.35, 0.35).
C17_DefaultDiffersInApex ==
    (focal.called /\ \A k \in 1..10 : ~RuleSatisfied(k, focal.brightness, focal.shape))
        => /\ ApexAndBase(focal.points)
           /\ ApexAndBase(TriangularPoints)
           /\ focal.points[1].x = TriangularPoints[1].x
           /\ focal.points[1].y = 3500
           /\ TriangularPoints[1].y = 3000
           /\ Positions(Tail(focal.points)) = Positions(Tail(TriangularPoints))
           /\ Weights(focal.points) = <<4000, 3500, 3500>>
           /\ Weights(TriangularPoints) = <<4000, 3500, 3500>>

\* generate_focal_points has been applied to tags that match no rule
C17_Witness ==
    /\ focal.called
    /\ focal.brightness = "moderate"
    /\ focal.shape = "teapot"
    /\ focal.points = <<Point(5000, 3500, 4000), Point(3500, 6500, 3500),
                        Point(6500, 6500, 3500)>>

\* whether branch k of the visual-flow list matches the shape tag; the
\* last branch, 8, is the default
FlowBranchMatches(k, shape) ==
    CASE k = 1 -> Contains("cascade", shape)
      [] k = 2 -> Contains("wings", shape) \/ Contains("symmetric", shape)
      [] k = 3 -> Contains("curved", shape) \/ Contains("tail", shape)
      [] k = 4 -> Contains("cross", shape)
      [] k = 5 -> Contains("linear", shape) \/ Contains("belt", shape)
      [] k = 6 -> Contains("zigzag", shape) \/ Contains("w_", shape)
      [] k = 7 -> Contains("dipper", shape)
      [] OTHER -> TRUE

\* the earliest matching branch of the visual-flow list
EarliestFlowBranch(shape) ==
    CHOOSE k \in 1..8 :
        FlowBranchMatches(k, shape) /\ \A j \in 1..(k - 1) : ~FlowBranchMatches(j, shape)

\* the (primary direction, flow type) of each branch as the spec lists them
FlowPairsListed ==
    <<<<"downward", "cascading">>, <<"horizontal", "bilateral">>,
      <<"curved-sweep", "sinuous">>, <<"radial", "centered">>,
      <<"horizontal", "linear">>, <<"alternating", "zigzag">>,
      <<"L-shaped", "segmented">>, <<"multi-directional", "balanced">>>>

\* the same with the third branch's direction written "curved sweep"
FlowPairsReturned ==
    [FlowPairsListed EXCEPT ![3] = <<"curved sweep", "sinuous">>]

\* the flow descriptor has exactly the four fields
FourFields(flow) ==
    DOMAIN flow = {"primary_direction", "flow_type", "movement_quality", "rhythm"}

\* C18 as stated: for every shape tag, whatever the brightness tag and the
\* focal-point rule, the visual flow has exactly the four fields and its
\* (primary direction, flow type) is that of the earliest matching branch
\* of cascade; wings/symmetric; curved/tail; cross; linear/belt; zigzag/w_;
\* dipper; default, as the spec lists them, the third being
\* curved-sweep/sinuous.
C18_FlowFirstMatchListed ==
    engine.called =>
        LET flow == engine.composition.visual_flow
        IN  /\ FourFields(flow)
            /\ <<flow.primary_direction, flow.flow_type>>
                   = FlowPairsListed[EarliestFlowBranch(focal.metadata.shape)]

\* C18 amended: the same, with the primary direction of the curved/tail
\* branch being "curved sweep".
C18_FlowFirstMatch ==
    engine.called =>
        LET flow == engine.composition.visual_flow
        IN  /\ FourFields(flow)
            /\ <<flow.primary_direction, flow.flow_type>>
                   = FlowPairsReturned[EarliestFlowBranch(focal.metadata.shape)]

\* a tag matching the cross branch and, earlier in the list, the symmetric
\* branch was classified horizontal/bilateral, under a brightness tag that
\* selects the cross rule for the focal points
C18_Witness ==
    /\ engine.called
    /\ focal.metadata.shape = "cross_symmetric"
    /\ focal.metadata.brightness_profile = "bright_cross"
    /\ Len(engine.composition.focal_points) = 5
    /\ engine.composition.visual_flow.primary_direction = "horizontal"
    /\ engine.composition.visual_flow.flow_type = "bilateral"

\* C20: spatial distribution is first-match-wins: a shape tag containing
\* "compact" gives clustered_central; else one containing "dispersed" or
\* "cascade" gives scattered_wide; else one containing "linear" or "belt"
\* gives linear_arrangement; only when none of these matches is the star
\* count used: at most 5 gives minimal_sparse, at least 10 complex_dense,
\* 6 to 9 moderate_distributed.
C20_DistributionFirstMatch ==
    engine.called =>
        LET shape == focal.metadata.shape
            star_count == focal.metadata.star_count_visual
            distribution == engine.composition.spatial_distribution
            compact == Contains("compact", shape)
            scattered == Contains("dispersed", shape) \/ Contains("cascade", shape)
            linear == Contains("linear", shape) \/ Contains("belt", shape)
        IN  /\ compact => distribution = "clustered_central"
            /\ (~compact /\ scattered) => distribution = "scattered_wide"
            /\ (~compact /\ ~scattered /\ linear) => distribution = "linear_arrangement"
            /\ (~compact /\ ~scattered /\ ~linear) =>
                   /\ star_count <= 5 => distribution = "minimal_sparse"
                   /\ star_count >= 10 => distribution = "complex_dense"
                   /\ star_count \in 6..9 => distribution = "moderate_distributed"
            /\ distribution \in {"minimal_sparse", "complex_dense", "moderate_distributed"}
                   => ~compact /\ ~scattered /\ ~linear

\* a tag matching no shape rule with exactly 5 stars was classified
\* minimal_sparse, and a tag containing "belt" with 12 stars is
\* linear_arrangement
C20_Witness ==
    /\ engine.called
    /\ focal.metadata.shape = "teapot"
    /\ focal.metadata.star_count_visual = 5
    /\ engine.composition.spatial_distribution = "minimal_sparse"
    /\ determine_spatial_distribution("hourglass_belt", 12) = "linear_arrangement"

\* |cx - 0.5| < 0.1 for the weighted centroid cx of the points, as a
\* comparison of fractions: |sum(x * w) - 0.5 * sum(w)| < 0.1 * sum(w)
XWithinTenth(points) ==
    Abs(SumXWeight(points) - 5000 * SumWeight(points)) < 1000 * SumWeight(points)

\* |cy - 0.5| < 0.1 for the weighted centroid cy of the points
YWithinTenth(points) ==
    Abs(SumYWeight(points) - 5000 * SumWeight(points)) < 1000 * SumWeight(points)

NonEmptyStrings(list) ==
    /\ Len(list) > 0
    /\ \A i \in 1..Len(list) : Len(list[i]) > 0

\* no word of `words` occurs in `text`
NoneIn(words, text) ==
    \A w \in words : ~Contains(w, text)

\* the fields of a visual flow
FlowFields ==
    {"primary_direction", "flow_type", "movement_quality", "rhythm"}

\* the composition has every field, each with a result: focal points whose
\* weights do not sum to zero, so that the centroid exists, a flow of four
\* non-empty fields, a balance with a centroid and three labels, a
\* distribution, a list of themes and four non-empty lists of suggestions
CompleteComposition(c) ==
    /\ DOMAIN c = {"focal_points", "visual_flow", "balance", "spatial_distribution",
                   "mythology_themes", "suggested_elements"}
    /\ Len(c.focal_points) > 0
    /\ \A i \in 1..Len(c.focal_points) : DOMAIN c.focal_points[i] = {"x", "y", "weight"}
    /\ SumWeight(c.focal_points) > 0
    /\ DOMAIN c.visual_flow = FlowFields
    /\ \A f \in FlowFields : Len(c.visual_flow[f]) > 0
    /\ DOMAIN c.balance = {"balance_type", "center_of_mass", "symmetry", "stability"}
    /\ c.balance.balance_type \in {"centered", "vertically_centered",
                                   "horizontally_centered", "asymmetric"}
    /\ c.balance.symmetry \in {"symmetric", "asymmetric"}
    /\ c.balance.stability \in {"high", "dynamic"}
    /\ c.spatial_distribution \in {"clustered_central", "scattered_wide",
                                   "linear_arrangement", "minimal_sparse",
                                   "complex_dense", "moderate_distributed"}
    /\ Len(c.mythology_themes) <= 5
    /\ DOMAIN c.suggested_elements = {"subjects", "lighting", "atmosphere", "color_palette"}
    /\ \A k \in DOMAIN c.suggested_elements : NonEmptyStrings(c.suggested_elements[k])

\* C21: for every shape tag and brightness tag, tags that match no rule
\* included, and every story and theme text, present or absent, the engine
\* returns a complete composition; a classifier none of whose keywords
\* occurs in its input gives the result of its final else branch: the
\* three-point focal list, the multi-directional flow, a distribution
\* chosen by the star count, and the generic subjects, lighting, atmosphere
\* and palette.
C21_Totality ==
    engine.called =>
        LET c == engine.composition
            metadata == focal.metadata
            shape == Get(metadata, "shape", "dispersed")
            brightness == Get(metadata, "brightness_profile", "moderate")
            story == Lower(Get(metadata, "story", ""))
            theme == Lower(Get(metadata, "theme", ""))
        IN  /\ CompleteComposition(c)
            /\ NoneIn({"two_bright_stars", "extremely_bright_star", "bright_cross"}, brightness)
                   /\ NoneIn({"cross", "belt", "hourglass", "w_zigzag", "dipper", "square",
                              "triangular", "curved", "tail", "dispersed"}, shape)
               => c.focal_points = <<Point(5000, 3500, 4000), Point(3500, 6500, 3500),
                                     Point(6500, 6500, 3500)>>
            /\ NoneIn({"cascade", "wings", "symmetric", "curved", "tail", "cross",
                       "linear", "belt", "zigzag", "w_", "dipper"}, shape)
               => c.visual_flow = [primary_direction |-> "multi-directional",
                                   flow_type |-> "balanced",
                                   movement_quality |-> "stable", rhythm |-> "varied"]
            /\ NoneIn({"compact", "dispersed", "cascade", "linear", "belt"}, shape)
               => c.spatial_distribution \in {"minimal_sparse", "complex_dense",
                                              "moderate_distributed"}
            /\ NoneIn({"hunt", "rescue", "music", "lyre", "wisdom"}, story)
               => c.suggested_elements.subjects
                      = <<"primary figure", "supporting elements", "narrative props">>
            /\ NoneIn({"extremely_bright", "two_bright", "bright_cross"}, brightness)
               => c.suggested_elements.lighting
                      = <<"even lighting", "gentle highlights", "soft shadows">>
            /\ NoneIn({"cascade", "curved", "tail", "symmetric", "cross"}, shape)
               => c.suggested_elements.atmosphere
                      = <<"natural environment", "organic forms", "irregular shapes">>
            /\ NoneIn({"water", "flow", "fire", "power", "death", "darkness", "wisdom",
                       "healing"}, theme)
               => c.suggested_elements.color_palette
                      = <<"starlight whites", "night sky blues", "cosmic purples",
                          "celestial palette">>

\* the engine was called on a shape tag, a brightness tag, a story and a
\* theme in which no classifier finds a keyword, and every classifier gave
\* its fallback result
C21_Witness ==
    /\ engine.called
    /\ focal.metadata = [name |-> "Tagged", shape |-> "Teapot", brightness_profile |-> "faint",
                         story |-> "A ship sails on", theme |-> "Voyage"]
    /\ Len(engine.composition.focal_points) = 3
    /\ engine.composition.visual_flow.flow_type = "balanced"
    /\ engine.composition.spatial_distribution = "minimal_sparse"
    /\ engine.composition.suggested_elements.subjects[1] = "primary figure"
    /\ engine.composition.suggested_elements.lighting[1] = "even lighting"
    /\ engine.composition.suggested_elements.atmosphere[1] = "natural environment"
    /\ engine.composition.suggested_elements.color_palette[1] = "starlight whites"
====
